---- MODULE Spec2Model ----
(***************************************************************************)
(* Model of the Tudu browser client: session storage and the auth/session  *)
(* module (userService.js), the sign-in, sign-up and profile forms, the    *)
(* HTTP wrapper (http.js), the task access module (taskService.js,         *)
(* documented revision), the hash router and its dashboard controller      *)
(* (route.js, documented revision), and the dashboard view                 *)
(* (dashboardView.js): the create-task modal, the kanban board, the delete *)
(* modal, next to the create-task modal and the loader of the router's     *)
(* older controller.                                                       *)
(*                                                                         *)
(* JavaScript runs one synchronous segment at a time: every action below   *)
(* is one such segment (an event handler up to its first await, or the     *)
(* continuation of a handler after an awaited promise settles).            *)
(***************************************************************************)
EXTENDS Integers, Sequences, FiniteSets, TLC

VARIABLES
  localStorage,    \* key -> stored value (token record / string), Absent when missing
  sessionStorage,  \* same for window.sessionStorage
  hash,            \* location.hash, a sequence of string pieces
  now,             \* Date.now() / 1000
  signIn,          \* sign-in form: field values, submit button state and label
  loginCalls,      \* sign-in submit handlers awaiting loginUser, in start order
  redirectTimers,  \* pending setTimeout(() => location.hash = "#/dashboard")
  lastRequest,     \* the most recent API request handed to http.*
  authResult,      \* what the most recent isAuthenticated() call saw and returned
  logout,          \* position of logoutUser / executeLogout
  navs,            \* router: one record per handleRoute call
  appView,         \* router: what app.innerHTML currently shows
  serverTasks,     \* the task list held by the remote API
  lastCreate,      \* arguments of the most recent createTask() call
  lastPut,         \* the most recent updateTaskStatus(): arguments and PUT body
  tasksView,       \* result of the most recent getTasks()
  stats,           \* result of the most recent getTaskStats()
  taskFetches,     \* getTasks() calls awaiting GET /tasks, in start order
  taskWrites,      \* POST / PUT requests of the task service not yet handled
  signUp,          \* sign-up form: marker, field values, submit button state
  registerCalls,   \* sign-up submit handlers awaiting registerUser, in start order
  signUpTimers,    \* pending setTimeout(() => location.hash = "#/sign-in")
  lastRegister,    \* arguments and request body of the most recent registerUser()
  profile,         \* profile form: field values, confirmation modal, save button
  profileCalls,    \* executeProfileUpdate() calls awaiting updateUserProfile
  profileTimers,   \* pending setTimeout(() => location.hash = "#/dashboard")
  lastProfileUpdate, \* request of the most recent updateUserProfile()
  httpCall,        \* the most recent request(): the response and the outcome
  dashboard,       \* dashboard view: fragment, cards, listeners, pending calls
  lastClick,       \* the service calls started by the most recent click
  taskForm,        \* create-task modal: fields, submit button, toast, position
  created,         \* arguments of the createTask() calls the form made, in order
  board,           \* kanban board: the cards and counter of each column
  profileInit,     \* initUserProfile(): calls, pending loads, wiring done
  dashInit,        \* initDashboard(): calls awaiting the profile, wiring done
  deletion,        \* delete modal, the cards and their flags, deleteTask calls
  editTask,        \* edit-task modal: form, submit button, pending update
  resetForm,       \* reset-password form: listeners, fields, button, timers
  resetCalls       \* handleSubmit calls awaiting resetPassword, in start order

sessionVars == <<localStorage, sessionStorage, hash, now, lastRequest, authResult, logout>>
signInVars  == <<signIn, loginCalls, redirectTimers>>
routerVars  == <<navs, appView>>
taskVars    == <<serverTasks, lastCreate, lastPut, tasksView, stats, taskFetches,
                 taskWrites>>
signUpVars  == <<signUp, registerCalls, signUpTimers, lastRegister>>
profileVars == <<profile, profileCalls, profileTimers, lastProfileUpdate>>
httpVars    == <<httpCall>>
dashVars    == <<dashboard, lastClick>>
boardVars   == <<taskForm, created, board>>
guardVars   == <<profileInit, dashInit>>
deleteVars  == <<deletion, editTask>>
resetVars   == <<resetForm, resetCalls>>
viewVars    == <<signUpVars, profileVars, httpVars, dashVars, boardVars, guardVars,
                 deleteVars,
                 resetVars>>
notSignUp   == <<profileVars, httpVars, dashVars, boardVars, guardVars, deleteVars,
                 resetVars>>
notProfile  == <<signUpVars, httpVars, dashVars, boardVars, guardVars, deleteVars,
                 resetVars>>
notHttp     == <<signUpVars, profileVars, dashVars, boardVars, guardVars, deleteVars,
                 resetVars>>
notDash     == <<signUpVars, profileVars, httpVars, boardVars, guardVars, deleteVars,
                 resetVars>>
notBoard    == <<signUpVars, profileVars, httpVars, dashVars, guardVars, deleteVars,
                 resetVars>>
notGuard    == <<signUpVars, profileVars, httpVars, dashVars, boardVars, deleteVars,
                 resetVars>>
notDelete   == <<signUpVars, profileVars, httpVars, dashVars, boardVars, guardVars,
                 resetVars>>
notReset    == <<signUpVars, profileVars, httpVars, dashVars, boardVars, guardVars,
                 deleteVars>>
vars == <<localStorage, sessionStorage, hash, now, signIn, loginCalls,
          redirectTimers, lastRequest, authResult, logout, navs, appView,
          serverTasks, lastCreate, lastPut, tasksView, stats, taskFetches,
          taskWrites, viewVars>>

(***************************************************************************)
(* Bounds                                                                  *)
(***************************************************************************)
MaxTime == 2        \* the clock runs over 0..MaxTime
MaxLoginCalls == 2  \* sign-in submit handlers in flight at once
MaxNavs == 3        \* handleRoute calls recorded per behaviour
MaxTasks == 2       \* tasks held by the server
MaxInits == 2       \* initializer calls recorded per form
MaxRegisterCalls == 2 \* sign-up submit handlers in flight at once
MaxProfileCalls == 2  \* profile updates in flight at once
MaxEntries == 3       \* times the router loads a view in the dashboard session
MaxTaskCalls == 2     \* deleteTask / updateTask calls in flight at once
MaxCreates == 2       \* createTask calls the create-task form makes
MaxFetches == 1       \* getTasks() calls in flight at once
MaxWrites == 1        \* POST / PUT requests of the task service in flight at once
MaxBoard == 3         \* tasks the server holds when the board is loaded
MaxCards == 2         \* cards on the board when the delete modal is used
MaxDeletes == 2       \* deleteTask calls made through the delete modal
MaxEdits == 1         \* times the edit modal is opened
MaxResets == 2        \* handleSubmit calls of the reset form in flight at once

(***************************************************************************)
(* Strings.  A string is a sequence of pieces; a piece is a character or,  *)
(* for route names, a whole word.                                          *)
(***************************************************************************)
NoValue == "<absent>"          \* getItem() === null

\* a queue without its i-th entry
RemoveAt(q, i) == SubSeq(q, 1, i - 1) \o SubSeq(q, i + 1, Len(q))

\* String.prototype.startsWith for a two-piece prefix
startsWith(s, p) == Len(s) >= Len(p) /\ SubSeq(s, 1, Len(p)) = p

\* String.prototype.slice(n)
slice(s, n) == IF n >= Len(s) THEN <<>> ELSE SubSeq(s, n + 1, Len(s))

\* String.prototype.trim
RECURSIVE trimStart(_)
trimStart(s) == IF s # <<>> /\ Head(s) = " " THEN trimStart(Tail(s)) ELSE s

RECURSIVE trimEnd(_)
trimEnd(s) ==
  IF s # <<>> /\ s[Len(s)] = " " THEN trimEnd(SubSeq(s, 1, Len(s) - 1)) ELSE s

trim(s) == trimEnd(trimStart(s))

\* [^\s@]+ : a non-empty run without whitespace or '@'
NoSpaceAtRun(s) == s # <<>> /\ \A k \in 1..Len(s) : s[k] \notin {" ", "@"}

\* /^[^\s@]+@[^\s@]+\.[^\s@]+$/.test(s)
emailRegexTest(s) ==
  \E i \in 1..Len(s) : \E j \in 1..Len(s) :
    /\ i < j
    /\ s[i] = "@"
    /\ s[j] = "."
    /\ NoSpaceAtRun(SubSeq(s, 1, i - 1))
    /\ NoSpaceAtRun(SubSeq(s, i + 1, j - 1))
    /\ NoSpaceAtRun(SubSeq(s, j + 1, Len(s)))

\* character classes of the regular expressions
LowerChars == {"a", "b", "c", "d", "e", "f", "g", "h", "i", "j", "k", "l", "m",
               "n", "o", "p", "q", "r", "s", "t", "u", "v", "w", "x", "y", "z"}
UpperChars == {"A", "B", "C", "D", "E", "F", "G", "H", "I", "J", "K", "L", "M",
               "N", "O", "P", "Q", "R", "S", "T", "U", "V", "W", "X", "Y", "Z"}
DigitChars == {"0", "1", "2", "3", "4", "5", "6", "7", "8", "9"}

\* /[C]/.test(s): some character of s is in the class C
Has(s, C) == \E k \in 1..Len(s) : s[k] \in C

\* /^\d+$/.test(s)
DigitsTest(s) == s # <<>> /\ \A k \in 1..Len(s) : s[k] \in DigitChars

DigitVal(c) ==
  CASE c = "0" -> 0 [] c = "1" -> 1 [] c = "2" -> 2 [] c = "3" -> 3
    [] c = "4" -> 4 [] c = "5" -> 5 [] c = "6" -> 6 [] c = "7" -> 7
    [] c = "8" -> 8 [] c = "9" -> 9

\* the value of a run of decimal digits
RECURSIVE DigitsValue(_)
DigitsValue(s) ==
  IF s = <<>> THEN 0
  ELSE 10 * DigitsValue(SubSeq(s, 1, Len(s) - 1)) + DigitVal(s[Len(s)])

\* the longest prefix of s made of digits
RECURSIVE DigitPrefix(_)
DigitPrefix(s) ==
  IF s # <<>> /\ Head(s) \in DigitChars
    THEN <<Head(s)>> \o DigitPrefix(Tail(s))
    ELSE <<>>

\* a JavaScript number: NaN, or an integer value
NaN == [nan |-> TRUE, val |-> 0]
Num(n) == [nan |-> FALSE, val |-> n]

RECURSIVE Pow10(_)
Pow10(n) == IF n = 0 THEN 1 ELSE 10 * Pow10(n - 1)

\* the position of the exponent mark in <digits>e<digits>, 0 if s is not of
\* that form
ExponentAt(s) ==
  LET marks == { i \in 1..Len(s) :
                   /\ s[i] \in {"e", "E"}
                   /\ DigitsTest(SubSeq(s, 1, i - 1))
                   /\ DigitsTest(SubSeq(s, i + 1, Len(s))) }
  IN  IF marks = {} THEN 0 ELSE CHOOSE i \in marks : TRUE

\* Number(s), also the conversion `s < 13` applies to a string: surrounding
\* whitespace is dropped; the empty string is 0; digits with an optional sign
\* or an exponent are their value; any other text is NaN (fractions and hex
\* literals are not among the field values used here)
Number(s) ==
  LET t == trim(s) IN
  IF t = <<>> THEN Num(0)
  ELSE IF DigitsTest(t) THEN Num(DigitsValue(t))
  ELSE IF Head(t) = "-" /\ DigitsTest(Tail(t)) THEN Num(0 - DigitsValue(Tail(t)))
  ELSE IF Head(t) = "+" /\ DigitsTest(Tail(t)) THEN Num(DigitsValue(Tail(t)))
  ELSE IF ExponentAt(t) > 0
    THEN Num(DigitsValue(SubSeq(t, 1, ExponentAt(t) - 1))
               * Pow10(DigitsValue(SubSeq(t, ExponentAt(t) + 1, Len(t)))))
  ELSE NaN

\* parseInt(s): leading whitespace skipped, optional sign, then the digits
\* up to the first other character; NaN without a digit
parseInt(s) ==
  LET t    == trimStart(s)
      neg  == t # <<>> /\ Head(t) = "-"
      body == IF t # <<>> /\ Head(t) \in {"-", "+"} THEN Tail(t) ELSE t
      ds   == DigitPrefix(body)
  IN  IF ds = <<>> THEN NaN
      ELSE Num(IF neg THEN 0 - DigitsValue(ds) ELSE DigitsValue(ds))

\* x < n and x >= n on JavaScript numbers: every comparison with NaN is false
NumLt(x, n) == ~x.nan /\ x.val < n
NumGe(x, n) == ~x.nan /\ x.val >= n

(***************************************************************************)
(* Bearer tokens.  A token is what split('.'), atob and JSON.parse see:    *)
(*   segs  number of dot-separated segments,                               *)
(*   b64   whether segment [1] is valid base64,                            *)
(*   json  what the decoded text parses to: an object, null, or nothing,   *)
(*   exp   the object's exp claim (NoExp when the claim is missing).       *)
(***************************************************************************)
NoExp == -1
Absent == [segs |-> 0, b64 |-> FALSE, json |-> "bad", exp |-> NoExp]

Jwt(e) == [segs |-> 3, b64 |-> TRUE, json |-> "obj", exp |-> e]

Tokens ==
  { Jwt(e) : e \in 1..MaxTime } \cup
  { Jwt(NoExp),                                                  \* no exp claim
    [segs |-> 3, b64 |-> TRUE,  json |-> "null", exp |-> NoExp], \* payload is JSON null
    [segs |-> 3, b64 |-> TRUE,  json |-> "bad",  exp |-> NoExp], \* payload is not JSON
    [segs |-> 3, b64 |-> FALSE, json |-> "bad",  exp |-> NoExp], \* payload is not base64
    [segs |-> 1, b64 |-> FALSE, json |-> "bad",  exp |-> NoExp] }\* no '.' in the token

\* JSON.parse(atob(token.split('.')[1])): "throw", "null" or "obj"
DecodePayload(token) ==
  IF token.segs < 2 THEN "throw"          \* atob(undefined)
  ELSE IF ~token.b64 THEN "throw"         \* atob: InvalidCharacterError
  ELSE IF token.json = "bad" THEN "throw" \* JSON.parse: SyntaxError
  ELSE token.json

StoreKeys == {"token", "userId", "userEmail", "userName", "userFirstName"}

\* Storage.removeItem
removeItem(store, key) == [store EXCEPT ![key] = IF key = "token" THEN Absent ELSE NoValue]

\* Storage.clear
clear(store) == [k \in StoreKeys |-> IF k = "token" THEN Absent ELSE NoValue]

EmptyStore == clear([k \in StoreKeys |-> NoValue])

(***************************************************************************)
(* userService.js                                                          *)
(***************************************************************************)

\* isAuthenticated(): the value returned, and whether the catch block ran
isAuthenticatedInclusive(token, t) ==
  IF token = Absent THEN [result |-> FALSE, caught |-> FALSE]
  ELSE LET p == DecodePayload(token) IN
       IF p = "throw" \/ p = "null" THEN [result |-> FALSE, caught |-> TRUE]
       ELSE [result |-> token.exp # NoExp /\ token.exp >= t, caught |-> FALSE]

isAuthenticated(token, t) ==
  IF token = Absent THEN [result |-> FALSE, caught |-> FALSE]
  ELSE LET p == DecodePayload(token) IN
       IF p = "throw" \/ p = "null"       \* null.exp is a TypeError
         THEN [result |-> FALSE, caught |-> TRUE]
       ELSE [result |-> token.exp # NoExp /\ token.exp > t, caught |-> FALSE]

\* `Bearer ${token}` : the header carries the token text, or "null"
Bearer(token) == [scheme |-> "Bearer", token |-> token]

NoRequest == [op |-> "none", auth |-> Bearer(Absent), stored |-> Absent]

\* Operations that read the token from localStorage
LocalOps == {"getTasks", "createTask", "updateTask", "deleteTask",
             "getUserProfile", "updateUserProfile"}

\* getTasks, createTask, updateTask, deleteTask, getUserProfile,
\* updateUserProfile: the request each of them hands to http.*
LocalRequest(op, store) ==
  [op |-> op, auth |-> Bearer(store["token"]), stored |-> store["token"]]

\* deleteUser / logoutUser read sessionStorage.getItem('token')
SessionRequest(op, local, session) ==
  [op |-> op, auth |-> Bearer(session["token"]), stored |-> local["token"]]

\* the removeItem calls at the end of logoutUser
LogoutClearLocalTokenOnly(store) == removeItem(store, "token")

LogoutClearLocal(store) ==
  removeItem(removeItem(removeItem(removeItem(removeItem(store,
    "token"), "userId"), "userEmail"), "userName"), "userFirstName")

LogoutClearSession(store) ==
  removeItem(removeItem(removeItem(store, "token"), "userId"), "userEmail")

HashSignIn    == <<"#", "/", "sign-in">>
HashDashboard == <<"#", "/", "dashboard">>
HashHome      == <<"#", "/", "home">>

(***************************************************************************)
(* signInView.js                                                           *)
(***************************************************************************)
LabelSignIn == "Iniciar sesion"
LabelBusy   == "Iniciando sesion..."

EmailValues    == { <<"a", "@", "b">>, <<" ", "a", "@", "b", ".", "c">> }
PasswordValues == { <<" ">>, <<"p", "w">> }

\* validateForm() of initSignin: the submit button follows the field values
validateForm(f) ==
  LET isValid == emailRegexTest(trim(f.email)) /\ Len(trim(f.password)) > 0
  IN  [f EXCEPT !.disabled = ~isValid]

\* the sign-in fragment as injected by the router, before initSignin runs
FreshSignIn ==
  [present |-> TRUE, marker |-> FALSE, wired |-> FALSE, listeners |-> 0,
   inits |-> 0, email |-> <<>>, password |-> <<>>,
   disabled |-> FALSE, text |-> LabelSignIn]

\* no sign-in form in the document
NoSignIn == [FreshSignIn EXCEPT !.present = FALSE]

\* initSignin() without the data-tudu-init check
initSigninNoMarker(f, authed) ==
  IF ~f.present
    THEN [form |-> f, checked |-> FALSE, redirect |-> FALSE]
  ELSE IF authed
    THEN [form |-> [f EXCEPT !.marker = TRUE], checked |-> TRUE,
          redirect |-> TRUE]
  ELSE [form |-> validateForm([f EXCEPT !.marker = TRUE, !.wired = TRUE,
                                        !.listeners = @ + 1,
                                        !.disabled = TRUE]),
        checked |-> TRUE, redirect |-> FALSE]

\* initSignin() on the document as it is; authed is what isAuthenticated()
\* returns, checked tells whether it was called
initSignin(f, authed) ==
  IF ~f.present \/ f.marker
    THEN [form |-> f, checked |-> FALSE, redirect |-> FALSE]
  ELSE IF authed
    THEN [form |-> [f EXCEPT !.marker = TRUE], checked |-> TRUE,
          redirect |-> TRUE]
  ELSE [form |-> validateForm([f EXCEPT !.marker = TRUE, !.wired = TRUE,
                                        !.listeners = @ + 1,
                                        !.disabled = TRUE]),
        checked |-> TRUE, redirect |-> FALSE]

\* the finally block of the submit listener; a handler whose form was
\* replaced by a newer fragment writes to the detached elements
SubmitFinally(f, call) ==
  IF call.attached THEN validateForm([f EXCEPT !.text = call.originalText])
                   ELSE f

\* app.innerHTML = html: the listeners of the old form keep the old elements
Detach(calls) == [k \in 1..Len(calls) |-> [calls[k] EXCEPT !.attached = FALSE]]

\* what the submit handler writes after loginUser resolved with data.token
StoreLogin(store, token) ==
  LET s1 == [store EXCEPT !["token"] = token]
  IN  IF DecodePayload(token) = "obj"
        THEN [s1 EXCEPT !["userId"] = "u1", !["userEmail"] = "a@b.c"]
        ELSE s1                       \* decoding threw: tokenError is only logged

(***************************************************************************)
(* signUpView.js                                                           *)
(***************************************************************************)
\* the class [@$!%*?&#] of passwordRegex
RegexSpecialChars == {"@", "$", "!", "%", "*", "?", "&", "#"}

\* the class [!@#$%^&*(),.?":{}|<>] of the password requirement list
RequirementSpecialChars ==
  {"!", "@", "#", "$", "%", "^", "&", "*", "(", ")", ",", ".", "?", "\"",
   ":", "{", "}", "|", "<", ">"}

\* passwordRegex with '!' missing from its special characters
passwordRegexTestNoBang(s) ==
  /\ Has(s, LowerChars)
  /\ Has(s, UpperChars)
  /\ Has(s, DigitChars)
  /\ Has(s, RegexSpecialChars \ {"!"})
  /\ \A k \in 1..Len(s) :
       s[k] \in LowerChars \cup UpperChars \cup DigitChars
                \cup (RegexSpecialChars \ {"!"})
  /\ Len(s) >= 8

\* /^(?=.*[a-z])(?=.*[A-Z])(?=.*\d)(?=.*[@$!%*?&#])[A-Za-z\d@$!%*?&#]{8,}$/
passwordRegexTest(s) ==
  /\ Has(s, LowerChars)
  /\ Has(s, UpperChars)
  /\ Has(s, DigitChars)
  /\ Has(s, RegexSpecialChars)
  /\ \A k \in 1..Len(s) :
       s[k] \in LowerChars \cup UpperChars \cup DigitChars \cup RegexSpecialChars
  /\ Len(s) >= 8

\* the elements #sign-up-first-name, #sign-up-last-name and #sign-up-age that
\* updateSignUpButtonState looks up; the form initSignup wires has #name,
\* #last-name and #age instead
NoAltFields == [present |-> FALSE, firstName |-> <<>>, lastName |-> <<>>,
                age |-> <<>>]

\* the sign-up fragment as injected by the router, before initSignup runs;
\* #name and #last-name, which no listener reads, stand filled in
FreshSignUp ==
  [present |-> TRUE, marker |-> FALSE, listeners |-> 0, inits |-> 0,
   nombre |-> "Ana", apellido |-> "Paz", email |-> <<>>, password |-> <<>>,
   confirm |-> <<>>, age |-> <<>>, disabled |-> FALSE,
   altFields |-> NoAltFields, wiredBy |-> "none"]

\* no sign-up form in the document
NoSignUp == [FreshSignUp EXCEPT !.present = FALSE]

\* route.js: /^(?=.*[a-z])(?=.*[A-Z])(?=.*\d)[A-Za-z\d@$!%*?&]{8,}$/
routePasswordRegexTest(s) ==
  /\ Has(s, LowerChars)
  /\ Has(s, UpperChars)
  /\ Has(s, DigitChars)
  /\ \A k \in 1..Len(s) :
       s[k] \in LowerChars \cup UpperChars \cup DigitChars
                \cup (RegexSpecialChars \ {"#"})
  /\ Len(s) >= 8

\* validateForm() of the initSignup of route.js
routeSignUpValidateForm(f) ==
  LET email    == trim(f.email)
      password == trim(f.password)
      confirm  == trim(f.confirm)
      age      == trim(f.age)
      valid    == /\ emailRegexTest(email)
                  /\ routePasswordRegexTest(password)
                  /\ password = confirm
                  /\ ~(~DigitsTest(age) \/ NumLt(Number(age), 13))
  IN  [f EXCEPT !.disabled = ~valid]

\* validateForm() of initSignup
signUpValidateForm(f) ==
  LET email    == trim(f.email)
      password == trim(f.password)
      confirm  == trim(f.confirm)
      age      == trim(f.age)
      valid    == /\ emailRegexTest(email)
                  /\ passwordRegexTest(password)
                  /\ password = confirm
                  /\ ~(~DigitsTest(age) \/ NumLt(Number(age), 13))
  IN  [f EXCEPT !.disabled = ~valid]

\* updateSignUpButtonState() without the check that its elements exist
updateSignUpButtonStateNoReturn(f) ==
  LET password  == f.password
      email     == trim(f.email)
      firstName == trim(f.altFields.firstName)
      lastName  == trim(f.altFields.lastName)
      age       == parseInt(f.altFields.age)
      passwordValid == /\ Len(password) >= 8
                       /\ Has(password, UpperChars)
                       /\ Has(password, LowerChars)
                       /\ Has(password, DigitChars)
                       /\ Has(password, RequirementSpecialChars)
      fieldsValid == /\ email # <<>>
                     /\ firstName # <<>>
                     /\ lastName # <<>>
                     /\ NumGe(age, 13)
  IN  [f EXCEPT !.disabled = ~(passwordValid /\ fieldsValid)]

\* updateSignUpButtonState(): returns early unless all six elements exist
updateSignUpButtonState(f) ==
  IF ~f.altFields.present THEN f
  ELSE
    LET password  == f.password
        email     == trim(f.email)
        firstName == trim(f.altFields.firstName)
        lastName  == trim(f.altFields.lastName)
        age       == parseInt(f.altFields.age)
        passwordValid == /\ Len(password) >= 8
                         /\ Has(password, UpperChars)
                         /\ Has(password, LowerChars)
                         /\ Has(password, DigitChars)
                         /\ Has(password, RequirementSpecialChars)
        fieldsValid == /\ email # <<>>
                       /\ firstName # <<>>
                       /\ lastName # <<>>
                       /\ NumGe(age, 13)
    IN  [f EXCEPT !.disabled = ~(passwordValid /\ fieldsValid)]

\* validateForm of the listeners on the form: the closure of the initSignup
\* that wired it, the one of signUpView.js or the one of route.js
validateFormOf(f) ==
  IF f.wiredBy = "route" THEN routeSignUpValidateForm(f)
                         ELSE signUpValidateForm(f)

\* the listeners of an input event on one field, in the order attached:
\* validateForm, then for the password validatePasswordRequirements of
\* signUpView.js, which ends in updateSignUpButtonState; #name and
\* #last-name have no listener
signUpInputListeners(f, field) ==
  IF f.listeners = 0 \/ field \in {"nombre", "apellido"} THEN f
  ELSE IF f.wiredBy = "route" THEN routeSignUpValidateForm(f)
  ELSE IF field = "password" THEN updateSignUpButtonState(signUpValidateForm(f))
  ELSE signUpValidateForm(f)

\* initSignup() without the data-tudu-init check
initSignupNoMarker(f) ==
  IF ~f.present THEN f
  ELSE signUpValidateForm([f EXCEPT !.marker = TRUE, !.listeners = @ + 1,
                                    !.wiredBy = "signUpView"])

\* initSignup() on the document as it is
initSignup(f) ==
  IF ~f.present THEN f
  ELSE IF f.marker THEN f
  ELSE signUpValidateForm([f EXCEPT !.marker = TRUE, !.listeners = @ + 1,
                                    !.wiredBy = "signUpView"])

\* initSignup() of route.js on the document as it is
routeInitSignup(f) ==
  IF ~f.present THEN f
  ELSE IF f.marker THEN f
  ELSE routeSignUpValidateForm([f EXCEPT !.marker = TRUE, !.listeners = @ + 1,
                                         !.wiredBy = "route"])

\* one submit listener up to `await registerUser(...)`
signUpSubmitListener(f) ==
  LET v == validateFormOf(f)
  IN  IF v.disabled
        THEN [form |-> v, calls |-> <<>>]
        ELSE [form |-> [v EXCEPT !.disabled = TRUE],
              calls |-> <<[nombre |-> f.nombre, apellido |-> f.apellido,
                           email |-> trim(f.email),
                           password |-> trim(f.password),
                           age |-> trim(f.age), attached |-> TRUE]>>]

\* a submit event runs every attached submit listener in turn
RECURSIVE signUpSubmit(_, _)
signUpSubmit(f, n) ==
  IF n = 0 THEN [form |-> f, calls |-> <<>>]
  ELSE LET first == signUpSubmitListener(f)
           rest  == signUpSubmit(first.form, n - 1)
       IN  [form |-> rest.form, calls |-> first.calls \o rest.calls]

\* registerUser(): the body handed to http.post('/users', ...)
registerUser(args) ==
  [username |-> args.email, email |-> args.email, password |-> args.password,
   firstName |-> args.nombre, lastName |-> args.apellido,
   age |-> parseInt(args.age)]

NoRegister == [called |-> FALSE, email |-> <<>>, password |-> <<>>,
               age |-> <<>>, body |-> registerUser([nombre |-> "", apellido |-> "",
                 email |-> <<>>, password |-> <<>>, age |-> <<>>])]

\* registerUser() after http.post resolved
StoreRegistered(store, call) ==
  [store EXCEPT !["userName"] = call.nombre \o " " \o call.apellido,
                !["userFirstName"] = call.nombre]

\* the catch and finally blocks of the sign-up submit listener
signUpFinally(f, call) == IF call.attached THEN validateFormOf(f) ELSE f

HashSignUp == <<"#", "/", "sign-up">>

SignUpEmails == { <<"a", "@", "b", ".", "c", "o", "m">>, <<"a", "@", "b">> }

SignUpPasswords ==
  { <<"A", "b", "c", "d", "1", "2", "3", "!">>,
    <<"A", "b", "c", "d", "1", "2", "3", "!", " ">>,
    <<"A", "b", "c", "1", "2", "3", "!">>,
    <<"a", "b", "c", "d", "1", "2", "3", "!">>,
    <<"A", "B", "C", "D", "1", "2", "3", "!">>,
    <<"A", "b", "c", "d", "e", "f", "g", "!">>,
    <<"A", "b", "c", "d", "1", "2", "3", "4">>,
    <<"A", "b", "c", "d", "1", "2", "3", "^">> }

SignUpAges == { <<"2", "0">>, <<" ", "1", "3">>, <<"1", "2">>, <<"1", "e", "2">> }

(***************************************************************************)
(* userProfileView.js                                                      *)
(***************************************************************************)
LabelSave   == "Guardar Cambios"
LabelSaving == "Guardando..."

\* the profile form of the fragment, its fields empty; modal is the display
\* of #editProfileModal, toast the last toast shown
FreshProfile ==
  [firstName |-> <<>>, lastName |-> <<>>, email |-> <<>>, age |-> <<>>,
   modal |-> FALSE, saveDisabled |-> FALSE, saveText |-> LabelSave,
   toast |-> "none"]

\* the profile GET /users/:id answers with: names and e-mail are strings
\* (empty when the user has none), age is a number
StoredProfile ==
  [firstName |-> <<"A", "n", "a">>, lastName |-> <<"P", "a", "z">>,
   email |-> <<"a", "@", "b", ".", "c">>, age |-> 20]

UserProfiles ==
  { StoredProfile, [StoredProfile EXCEPT !.firstName = <<>>],
    [StoredProfile EXCEPT !.age = 0] }

\* String(n) for a number below 100
DigitOf(n) == <<"0", "1", "2", "3", "4", "5", "6", "7", "8", "9">>[n + 1]

NumberToString(n) ==
  IF n < 10 THEN <<DigitOf(n)>> ELSE <<DigitOf(n \div 10), DigitOf(n % 10)>>

\* input.value = userProfile.age || '': 0 is falsy
AgeValue(n) == IF n = 0 THEN <<>> ELSE NumberToString(n)

\* loadUserData() after getUserProfile resolved: the fields of the form
\* take the values of the profile
loadUserData(f, userProfile) ==
  [f EXCEPT !.firstName = userProfile.firstName,
            !.lastName = userProfile.lastName,
            !.email = userProfile.email,
            !.age = AgeValue(userProfile.age)]

\* the profile form as loadUserData filled it from the stored profile
LoadedProfile == loadUserData(FreshProfile, StoredProfile)

ProfileNames == { <<>>, <<"A", "n", "a">> }
ProfileAges  == { <<"2", "0">>, <<"1", "3">>, <<"1", "2">>, <<"1", "e", "2">>, <<>> }

\* the submit listener of the profile form: the modal opens only for
\* filled-in fields and an age that does not compare below 13
profileSubmit(f) ==
  LET firstName == trim(f.firstName)
      lastName  == trim(f.lastName)
      email     == trim(f.email)
      age       == f.age
  IN  IF firstName = <<>> \/ lastName = <<>> \/ email = <<>> \/ age = <<>>
        THEN [f EXCEPT !.toast = "required"]
      ELSE IF NumLt(Number(age), 13)
        THEN [f EXCEPT !.toast = "age"]
      ELSE [f EXCEPT !.modal = TRUE]

\* getCurrentUser() is not null: a token is stored and its payload decodes
\* to an object
getCurrentUser(token) == token # Absent /\ DecodePayload(token) = "obj"

\* executeProfileUpdate(): updateData as built from the fields
updateData(f) ==
  [firstName |-> trim(f.firstName), lastName |-> trim(f.lastName),
   email |-> trim(f.email), age |-> parseInt(f.age)]

NoProfileUpdate == [called |-> FALSE, body |-> updateData(LoadedProfile)]

(***************************************************************************)
(* http.js                                                                 *)
(***************************************************************************)
Undefined == "<undefined>"     \* a property the payload does not have

\* the JSON values a response body can parse to: null, or an object with or
\* without message and error properties
JsonNull == [kind |-> "null", message |-> Undefined, error |-> Undefined]

Payloads ==
  { [kind |-> "object", message |-> m, error |-> e] :
      m \in {Undefined, "", "No autorizado"}, e \in {Undefined, "", "Bad Request"} }
  \cup {JsonNull}

Statuses == {200, 201, 400, 401, 500}

\* a response: its status, whether the content-type header includes
\* application/json, whether res.json() resolves, and what it resolves to
Responses ==
  [status : Statuses, isJSON : BOOLEAN, parses : BOOLEAN, payload : Payloads]

\* x || ... : undefined and the empty string are falsy
Truthy(v) == v # Undefined /\ v # ""

\* request() with the error field taken before the message field
requestErrorFirst(res) ==
  LET payload == IF res.isJSON /\ res.parses THEN res.payload ELSE JsonNull
      ok      == res.status >= 200 /\ res.status <= 299
      msg     == IF Truthy(payload.error) THEN payload.error
                 ELSE IF Truthy(payload.message) THEN payload.message
                 ELSE "HTTP " \o ToString(res.status)
  IN  IF ~ok THEN [throws |-> TRUE, message |-> msg, value |-> JsonNull]
      ELSE [throws |-> FALSE, message |-> "", value |-> payload]

\* request(): the outcome once fetch resolved with res
request(res) ==
  LET payload == IF res.isJSON /\ res.parses THEN res.payload ELSE JsonNull
      ok      == res.status >= 200 /\ res.status <= 299
      msg     == IF Truthy(payload.message) THEN payload.message
                 ELSE IF Truthy(payload.error) THEN payload.error
                 ELSE "HTTP " \o ToString(res.status)
  IN  IF ~ok THEN [throws |-> TRUE, message |-> msg, value |-> JsonNull]
      ELSE [throws |-> FALSE, message |-> "", value |-> payload]

NoHttpCall ==
  [called |-> FALSE, network |-> FALSE,
   response |-> [status |-> 200, isJSON |-> FALSE, parses |-> FALSE,
                 payload |-> JsonNull],
   outcome |-> [throws |-> FALSE, message |-> "", value |-> JsonNull]]

(***************************************************************************)
(* taskService.js                                                          *)
(***************************************************************************)
FrontStatuses == {"pending", "progress", "completed"}

\* the state values tasks on the server carry: what mapStatus writes and
\* the spelling mapState reads
BackendStates == {"Por Hacer", "Por hacer", "Haciendo", "Hecho"}

mapStatus(status) ==
  CASE status = "pending"   -> "Por Hacer"
    [] status = "progress"  -> "Haciendo"
    [] status = "completed" -> "Hecho"
    [] OTHER                -> "Por Hacer"

mapState(state) ==
  CASE state = "Por hacer" -> "todo"
    [] state = "Haciendo"  -> "progress"
    [] state = "Hecho"     -> "done"
    [] OTHER               -> "todo"

\* a date as the API returns it: none (null, undefined or ""), text that
\* new Date() cannot parse, or a date-time with its getTime() value
NoDate == [kind |-> "none", time |-> 0]

\* getTasks(): tasks.map(t => ({...t, dueDate: t.date, status: mapState(t.state)}));
\* the id of a task is its position in the server's list
getTasks(list) ==
  [k \in 1..Len(list) |-> [id |-> k, state |-> list[k].state,
                            date |-> list[k].date, dueDate |-> list[k].date,
                            status |-> mapState(list[k].state)]]

\* tasks.filter(t => t.status === s).length
CountStatus(tasks, s) == Cardinality({k \in 1..Len(tasks) : tasks[k].status = s})

\* getTaskStats() on the list getTasks() returned
getTaskStats(tasks) ==
  [pending   |-> CountStatus(tasks, "todo"),
   progress  |-> CountStatus(tasks, "progress"),
   completed |-> CountStatus(tasks, "done"),
   total     |-> Len(tasks)]

\* t.status of a task as the server sent it: the tasks of the API carry
\* their status in `state` and have no `status` property
StatusOf(t) == IF "status" \in DOMAIN t THEN t.status ELSE "<undefined>"

\* taskService.js without the mapping: getTasks() returns the list of the
\* response as it is and getTaskStats() counts t.status === 'pending',
\* 'progress', 'completed' over it
serviceGetTaskStats(tasks) ==
  LET Count(s) == Cardinality({k \in 1..Len(tasks) : StatusOf(tasks[k]) = s})
  IN  [pending   |-> Count("pending"),
       progress  |-> Count("progress"),
       completed |-> Count("completed"),
       total     |-> Len(tasks)]

NoCreate == [status |-> "", state |-> "", index |-> 0]

\* JSON.stringify(body) in http.put: properties that are undefined are left
\* out; the body is the set of <<key, value>> pairs sent
stringify(payload) ==
  { <<k, payload[k]>> : k \in {x \in DOMAIN payload : payload[x] # Undefined} }

\* updateTask(taskId, updates): the payload handed to http.put
updateTask(updates) ==
  stringify([title |-> updates.title, detail |-> updates.detail,
             date |-> updates.date, state |-> updates.state])

\* updateTaskStatus(taskId, newStatus): updateTask(taskId, {status: newStatus})
updateTaskStatus(newStatus) ==
  updateTask([title |-> Undefined, detail |-> Undefined, date |-> Undefined,
              state |-> Undefined, status |-> newStatus])

\* the server applying a PUT body to a stored task
serverPut(task, body) ==
  IF \E pair \in body : pair[1] = "state"
    THEN [task EXCEPT !.state = (CHOOSE pair \in body : pair[1] = "state")[2]]
    ELSE task

NoPut == [called |-> FALSE, index |-> 0, newStatus |-> "", body |-> {}]

\* counts: the object getTaskStats returned; list: the server list behind it
NoStats == [called |-> FALSE, failed |-> FALSE, list |-> <<>>,
            counts |-> [pending |-> 0, progress |-> 0, completed |-> 0, total |-> 0]]

(***************************************************************************)
(* route.js                                                                *)
(***************************************************************************)
KnownRoutes == {"home", "board", "sign-in", "sign-up", "dashboard"}

\* (location.hash.startsWith('#/') ? location.hash.slice(2) : '') || 'home'
PathOf(h) ==
  LET p == IF startsWith(h, <<"#", "/">>) THEN slice(h, 2) ELSE <<>>
  IN  IF p = <<>> THEN <<"home">> ELSE p

\* known.includes(path)
KnownPath(h) == PathOf(h) \in { <<r>> : r \in KnownRoutes }

\* handleRoute: the view name handed to loadView
RouteOfNoFallback(h) == PathOf(h)[1]

RouteOf(h) == IF KnownPath(h) THEN PathOf(h)[1] ELSE "home"

\* the initializers loadView can call; initBoard is referenced but not defined
DefinedInits == {"home", "sign-up", "sign-in", "dashboard"}

\* a hashchange event that is dispatched but not handled yet
QueuedNav == [stage |-> "queued", hash |-> <<>>, route |-> "", loaded |-> "",
              inits |-> <<>>]

\* location.hash = h in the code of a view: once initRouter has added its
\* listener (a handleRoute call is on record), a changed value dispatches a
\* hashchange event
hashchange(ns, h) == IF ns # <<>> /\ h # hash THEN Append(ns, QueuedNav) ELSE ns

\* handleRoute() reading location.hash = h and calling loadView
HandleRouteNav(h) == [stage |-> "fetching", hash |-> h, route |-> RouteOf(h),
                      loaded |-> "", inits |-> <<>>]

HashBoard   == <<"#", "/", "board">>
HashUnknown == <<"#", "/", "nowhere">>
HashReset(tok) == <<"#", "/", "reset-password", "/", tok>>

NavHashes == { <<>>, HashHome, HashSignIn, HashBoard, HashUnknown,
               HashReset("tok1"), HashReset("tok2") }

\* #/reset-password/<token> with a non-empty token
IsResetHash(h) ==
  /\ startsWith(h, <<"#", "/", "reset-password", "/">>)
  /\ Len(h) = 5

(***************************************************************************)
(* resetPasswordView.js.  initResetPassword(token) has no marker: every     *)
(* call on the form adds its listeners, each with the token of its call    *)
(* (listeners is the sequence of those tokens, "" being the empty token).  *)
(* The fragment is not in the repository: whether the form is in the       *)
(* document and whether its button starts disabled is chosen initially.    *)
(***************************************************************************)
LabelUpdate   == "Actualizar"
LabelUpdating == "Actualizando..."

ResetTokens == {"", "tok1", "tok2"}

ToastResetToken    == <<"Token de recuperacion invalido">>
ToastResetWeak     == <<"La contrasena debe tener al menos 8 caracteres, mayuscula, minuscula, numero y caracter especial">>
ToastResetMismatch == <<"Las contrasenas no coinciden">>
ToastResetDone     == <<"Contrasena actualizada correctamente">>
ToastResetFailed(msg) ==
  <<"Error", IF msg = "" THEN "No se pudo actualizar la contrasena" ELSE msg>>

\* the messages a rejected resetPassword carries; "" is an error without one
ResetErrors == {"", "Token invalido o expirado"}

FreshReset(present, disabled) ==
  [present |-> present, listeners |-> <<>>, password |-> <<>>, confirm |-> <<>>,
   disabled |-> disabled, text |-> LabelUpdate, passwordRed |-> FALSE,
   confirmRed |-> FALSE, toast |-> <<>>, timers |-> 0,
   posted |-> [called |-> FALSE, token |-> "", password |-> <<>>,
               confirmPassword |-> <<>>]]

\* /^(?=.*[a-z])(?=.*[A-Z])(?=.*\d)(?=.*[@$!%*?&#])[A-Za-z\d@$!%*?&#]{8,}$/
resetPasswordRegexTest(s) ==
  /\ Has(s, LowerChars)
  /\ Has(s, UpperChars)
  /\ Has(s, DigitChars)
  /\ Has(s, {"@", "$", "!", "%", "*", "?", "&", "#"})
  /\ \A k \in 1..Len(s) :
       s[k] \in LowerChars \cup UpperChars \cup DigitChars
                \cup {"@", "$", "!", "%", "*", "?", "&", "#"}
  /\ Len(s) >= 8

\* validatePasswords(): the values are read untrimmed; the button follows
\* the rule and the borders turn red for a filled-in field that fails
validatePasswords(f) ==
  LET isValid == /\ resetPasswordRegexTest(f.password)
                 /\ f.password = f.confirm
                 /\ trim(f.password) # <<>>
  IN  [f EXCEPT !.disabled = ~isValid,
                !.confirmRed = (f.confirm # <<>> /\ f.password # f.confirm),
                !.passwordRed = (f.password # <<>>
                                   /\ ~resetPasswordRegexTest(f.password))]

\* initResetPassword(token) on the document: without a token the toast and
\* the redirect (the caller sets the hash); without the form nothing; else
\* the listeners are added
initResetPassword(f, token) ==
  IF token = "" THEN [form |-> [f EXCEPT !.toast = ToastResetToken],
                      redirect |-> TRUE]
  ELSE IF ~f.present THEN [form |-> f, redirect |-> FALSE]
  ELSE [form |-> [f EXCEPT !.listeners = Append(@, token)], redirect |-> FALSE]

\* one handleSubmit with the token of its initResetPassword call, up to
\* `await resetPassword(token, {...})`
handleSubmit(f, token) ==
  IF ~resetPasswordRegexTest(f.password)
    THEN [form |-> [f EXCEPT !.toast = ToastResetWeak], calls |-> <<>>]
  ELSE IF f.password # f.confirm
    THEN [form |-> [f EXCEPT !.toast = ToastResetMismatch], calls |-> <<>>]
  ELSE LET call == [called |-> TRUE, token |-> token, password |-> f.password,
                    confirmPassword |-> f.confirm]
       IN  [form |-> [f EXCEPT !.disabled = TRUE, !.text = LabelUpdating,
                               !.posted = call],
            calls |-> <<call>>]

\* a submit event runs the handleSubmit of every initResetPassword call
RECURSIVE resetSubmit(_, _)
resetSubmit(f, tokens) ==
  IF tokens = <<>> THEN [form |-> f, calls |-> <<>>]
  ELSE LET first == handleSubmit(f, Head(tokens))
           rest  == resetSubmit(first.form, Tail(tokens))
       IN  [form |-> rest.form, calls |-> first.calls \o rest.calls]

(***************************************************************************)
(* Dashboard controller of the router module (initDashboard and the        *)
(* functions it calls).  Listeners are counted per target: the document    *)
(* outlives every view, the elements of a fragment are replaced with it.   *)
(***************************************************************************)
\* no dashboard fragment in the document, nothing wired
NoDashboard == [present |-> FALSE, cards |-> FALSE,
                loads |-> 0, pending |-> 0, calls |-> 0, reloads |-> 0,
                documentClick |-> 0, logoutOption |-> 0]

NoClick == [control |-> "none", action |-> "none", calls |-> 0]

\* app.innerHTML = html with the dashboard fragment: new elements, no cards
InjectDashboard(d) ==
  [d EXCEPT !.present = TRUE, !.cards = FALSE, !.logoutOption = 0]

\* app.innerHTML = html with another fragment
InjectOther(d) ==
  [d EXCEPT !.present = FALSE, !.cards = FALSE, !.logoutOption = 0]

\* loadTasksFromBackend after getTasks settled: when the request succeeded the
\* columns of the document are emptied and the cards of the answer rendered
\* (shown: the answer holds a task); when it failed the columns stay
renderTasks(d, ok, shown) ==
  IF d.present /\ ok THEN [d EXCEPT !.cards = shown] ELSE d

\* initUserDropdown: returns when .user-profile is missing, otherwise adds a
\* click listener to #logoutOption (the listeners that only toggle the
\* dropdown's classes are not counted)
initUserDropdown(d) ==
  IF ~d.present THEN d ELSE [d EXCEPT !.logoutOption = @ + 1]

\* initTaskActions: document.addEventListener("click", ...)
initTaskActions(d) == [d EXCEPT !.documentClick = @ + 1]

\* the service call behind each card button
TaskButtons == {"delete-btn", "edit-btn"}

CallOf(control) == IF control = "delete-btn" THEN "deleteTask" ELSE "updateTask"

(***************************************************************************)
(* dashboardView.js: the create-task modal and the kanban board            *)
(***************************************************************************)
LabelCreate == "Crear tarea"

TitleRequired == "El titulo de la tarea es obligatorio"

\* the create-task form of a dashboard fragment; pc is the position of its
\* submit handler: idle, creating (await createTask), loading (await
\* loadTasksFromBackend); args are the arguments of the pending call
NoArgs == [title |-> <<>>, status |-> "", dueDate |-> NoDate]

FreshTaskForm ==
  [modal |-> FALSE, title |-> <<>>, status |-> "pending", date |-> NoDate,
   disabled |-> FALSE, text |-> LabelCreate, toast |-> "none", pc |-> "idle",
   args |-> NoArgs, answered |-> FALSE, list |-> <<>>]

\* form.reset()
resetTaskForm(f) ==
  [f EXCEPT !.title = <<>>, !.status = "pending", !.date = NoDate]

\* the submit listener that the router's own initCreateTaskModal attaches,
\* up to `await createTask(taskData)`: the task data are read and sent as
\* they are; currentUser.email throws when nobody is signed in
routeCreateTaskSubmit(f, user) ==
  IF ~user
    THEN [form |-> [f EXCEPT !.toast = "Error al crear tarea"], sent |-> FALSE]
  ELSE LET taskData == [title   |-> trim(f.title),
                        status  |-> f.status,
                        dueDate |-> f.date]
       IN  [form |-> [f EXCEPT !.disabled = TRUE, !.text = LabelSaving,
                               !.pc = "creating", !.args = taskData],
            sent |-> TRUE]

\* the submit listener of the create-task form up to `await createTask(...)`;
\* a throw inside try runs catch (toast) and finally (button restored)
createTaskSubmit(f, user) ==
  IF f.disabled THEN [form |-> f, sent |-> FALSE]
  ELSE IF ~user
    THEN [form |-> [f EXCEPT !.toast = "Usuario no autenticado"], sent |-> FALSE]
  ELSE LET taskData == [title   |-> trim(f.title),
                        status  |-> IF f.status = "" THEN "pending" ELSE f.status,
                        dueDate |-> f.date]
       IN  IF taskData.title = <<>>
             THEN [form |-> [f EXCEPT !.toast = TitleRequired], sent |-> FALSE]
             ELSE [form |-> [f EXCEPT !.disabled = TRUE, !.text = LabelSaving,
                                     !.pc = "creating", !.args = taskData],
                   sent |-> TRUE]

\* the finally block of the create-task submit listener
createTaskFinally(f) ==
  [f EXCEPT !.disabled = FALSE, !.text = LabelCreate, !.pc = "idle",
            !.args = NoArgs, !.answered = FALSE, !.list = <<>>]

TaskTitles == { <<>>, <<" ">>, <<"a">>, <<" ", "a">> }

\* what a date input and a time input combine to: no date, or a date-time
Today == [kind |-> "valid", time |-> 1]

FormDates == { NoDate, Today }

\* createTask({title, detail, dueDate, status}): the payload of POST /tasks
createTask(args) ==
  [title |-> args.title, date |-> args.dueDate, state |-> mapStatus(args.status)]

\* String.prototype.toLowerCase on the status texts in use
toLowerCase(s) ==
  CASE s = "Done"     -> "done"
    [] s = "Progress" -> "progress"
    [] s = "Pending"  -> "pending"
    [] OTHER          -> s

Columns == <<"pending", "progress", "completed">>

\* the status map without the spellings done and completada
normalizeStatusNoDone(status) ==
  LET s == toLowerCase(status) IN
  CASE s \in {"pending", "pendiente"}                     -> "pending"
    [] s \in {"en_progreso", "progress", "in_progress"}   -> "progress"
    [] s \in {"completed"}                                -> "completed"
    [] OTHER                                              -> "pending"

\* statusMap[status?.toLowerCase()] || "pending"
normalizeStatus(status) ==
  LET s == toLowerCase(status) IN
  CASE s \in {"pending", "pendiente"}                     -> "pending"
    [] s \in {"en_progreso", "progress", "in_progress"}   -> "progress"
    [] s \in {"completed", "completada", "done"}          -> "completed"
    [] OTHER                                              -> "pending"

\* tasks.forEach(task => tasksByStatus[normalizeStatus(task.status)].push(task))
tasksByStatus(tasks, column) ==
  SelectSeq(tasks, LAMBDA t : normalizeStatus(t.status) = column)

\* the comparator with the tests of a missing or unparseable date left out
compareByDateTimeOnly(a, b) == a.dueDate.time - b.dueDate.time

\* the comparator of sortTasksByDate: negative, zero or positive
compareByDate(a, b) ==
  IF a.dueDate.kind = "none" /\ b.dueDate.kind = "none" THEN 0
  ELSE IF a.dueDate.kind = "none" THEN 1
  ELSE IF b.dueDate.kind = "none" THEN -1
  ELSE IF a.dueDate.kind = "invalid" /\ b.dueDate.kind = "invalid" THEN 0
  ELSE IF a.dueDate.kind = "invalid" THEN 1
  ELSE IF b.dueDate.kind = "invalid" THEN -1
  ELSE a.dueDate.time - b.dueDate.time

\* Array.prototype.sort is stable: an element goes behind every element it
\* does not compare below
RECURSIVE insertSorted(_, _)
insertSorted(sorted, t) ==
  IF sorted = <<>> THEN <<t>>
  ELSE IF compareByDate(t, Head(sorted)) < 0 THEN <<t>> \o sorted
  ELSE <<Head(sorted)>> \o insertSorted(Tail(sorted), t)

RECURSIVE sortTasksByDate(_)
sortTasksByDate(taskList) ==
  IF taskList = <<>> THEN <<>>
  ELSE insertSorted(sortTasksByDate(SubSeq(taskList, 1, Len(taskList) - 1)),
                    taskList[Len(taskList)])

\* one column after loadTasksFromBackend rendered: its cards in order, the
\* placeholder "No hay tareas aun", and the text of .column-count
renderColumn(tasks, column) ==
  LET taskList == sortTasksByDate(tasksByStatus(tasks, column))
  IN  [cards |-> taskList, empty |-> (Len(taskList) = 0), count |-> Len(taskList)]

\* the board after a load: rendered is the list that was rendered
loadTasksRender(tasks) ==
  [loaded |-> TRUE, rendered |-> tasks,
   pending   |-> renderColumn(tasks, "pending"),
   progress  |-> renderColumn(tasks, "progress"),
   completed |-> renderColumn(tasks, "completed")]

\* the router's own loadTasksFromBackend groups with
\* tasks.filter(t => t.status === column) and renders the groups unsorted
routeTasksByStatus(tasks, column) ==
  SelectSeq(tasks, LAMBDA t : t.status = column)

routeRenderColumn(tasks, column) ==
  LET list == routeTasksByStatus(tasks, column)
  IN  [cards |-> list, empty |-> (Len(list) = 0), count |-> Len(list)]

routeLoadTasksRender(tasks) ==
  [loaded |-> TRUE, rendered |-> tasks,
   pending   |-> routeRenderColumn(tasks, "pending"),
   progress  |-> routeRenderColumn(tasks, "progress"),
   completed |-> routeRenderColumn(tasks, "completed")]

\* the board of a fragment before the first load
FreshColumn == [cards |-> <<>>, empty |-> FALSE, count |-> 0]

FreshBoard == [loaded |-> FALSE, rendered |-> <<>>, pending |-> FreshColumn,
               progress |-> FreshColumn, completed |-> FreshColumn]

(***************************************************************************)
(* dashboardView.js: the delete confirmation modal                         *)
(* A task id is a number from 1; taskCard = 0 stands for a modal without   *)
(* data-task-card.  A card element carries data-deleting: unset, 'true' or *)
(* 'false', and so does #editTaskForm (form) once executeDeleteTask found   *)
(* it.  A call holds the element its lookup returned (el): attached says   *)
(* whether that element is still in the document, deleting is the flag of  *)
(* a card element that has left the document.  caught is the flag of the   *)
(* element held by the call whose catch block ran last.                    *)
(***************************************************************************)
CardIds == 1..MaxCards

\* a card element as createTaskCard builds it: no data-deleting and no
\* data-editing attribute
FreshCard(shown) == [present |-> shown, deleting |-> "unset", editing |-> "unset"]

\* the board without cards, the modal hidden, no call made
NoDeletion ==
  [display |-> FALSE, taskCard |-> 0, click |-> "none", toast |-> <<>>,
   cards |-> [id \in CardIds |-> FreshCard(FALSE)], form |-> "unset",
   server |-> {}, calls |-> <<>>, caught |-> "none"]

\* document.querySelector(`[data-task-id="${id}"]`): the first element of
\* the document that carries the id.  The cards carry theirs from
\* createTaskCard; #editTaskForm, which follows the board in the document,
\* carries the id openEditModal stored on it (formId, 0 for none)
queryTaskId(d, formId, id) ==
  IF d.cards[id].present THEN "card"
  ELSE IF formId = id THEN "form"
  ELSE "none"

ToastDeleteFailed == <<"Error eliminando">>

\* el.dataset.deleting = flag on the element the lookup returned
setDeleting(d, el, id, flag) ==
  IF el = "card" THEN [d EXCEPT !.cards[id].deleting = flag]
  ELSE IF el = "form" THEN [d EXCEPT !.form = flag]
  ELSE d

\* handleDeleteTask(card): returns when a deletion of the card is running,
\* else notes the id on the modal and shows it
handleDeleteTask(d, id) ==
  IF d.cards[id].deleting = "true" THEN d
  ELSE [d EXCEPT !.taskCard = id, !.display = TRUE]

\* clearPendingDelete() that leaves data-task-card on the modal
clearPendingDeleteKeepId(d, formId) ==
  IF d.taskCard # 0
    THEN setDeleting(d, queryTaskId(d, formId, d.taskCard), d.taskCard, "false")
    ELSE d

\* clearPendingDelete(): the element found for the pending id is made usable
\* again and the id is removed from the modal
clearPendingDelete(d, formId) ==
  IF d.taskCard # 0
    THEN [setDeleting(d, queryTaskId(d, formId, d.taskCard), d.taskCard, "false")
            EXCEPT !.taskCard = 0]
    ELSE d

\* executeDeleteTask(taskId) up to `await deleteTask(taskId)`: without an
\* element for the id it returns, else it marks the element and calls the
\* service.  A call is answered once the server has handled its request;
\* list is the answer to its GET /tasks
executeDeleteTask(d, formId, taskId) ==
  LET el == queryTaskId(d, formId, taskId) IN
  IF el = "none" THEN d
  ELSE [setDeleting(d, el, taskId, "true") EXCEPT
          !.calls = Append(@, [id |-> taskId, el |-> el, attached |-> TRUE,
                               deleting |-> "true", pc |-> "deleting",
                               answered |-> FALSE, list |-> {}])]

\* the catch block of executeDeleteTask for the i-th call: the toast, and
\* the flag of the element the call holds is set to 'false'
executeDeleteTaskCatch(d, i) ==
  LET call == d.calls[i]
      held == [call EXCEPT !.deleting = "false"]
      d1   == [d EXCEPT !.calls = RemoveAt(@, i), !.toast = ToastDeleteFailed,
                        !.caught = held.deleting]
  IN  IF call.attached THEN setDeleting(d1, call.el, call.id, held.deleting)
                       ELSE d1

\* the click listener of #confirmDeleteTaskBtn
confirmDelete(d, formId) ==
  IF d.taskCard # 0
    THEN executeDeleteTask([d EXCEPT !.display = FALSE], formId, d.taskCard)
    ELSE d

\* loadTasksFromBackend() rendering the tasks of the answer: every card is a
\* new element, the card elements that running calls hold are out of the
\* document with the flag they carried (and so are those of handleEditTask's
\* timers, which change nothing of the document when they fire)
renderCards(d, list) ==
  [d EXCEPT !.cards = [id \in CardIds |-> FreshCard(id \in list)],
            !.calls = [k \in 1..Len(d.calls) |->
                         IF d.calls[k].el = "card" /\ d.calls[k].attached
                           THEN [d.calls[k] EXCEPT
                                   !.attached = FALSE,
                                   !.deleting = d.cards[d.calls[k].id].deleting]
                           ELSE d.calls[k]]]

DismissControls == {"close-modal", "cancelDeleteTaskBtn", "backdrop"}

(***************************************************************************)
(* dashboardView.js: the edit-task modal.  taskId = 0 stands for a form     *)
(* without data-task-id; disabled is the state of the submit button and of  *)
(* the cancel button, which are disabled and enabled together; pc is the    *)
(* position of the submit listener: idle, updating (await updateTask),      *)
(* loading (await loadTasksFromBackend); put is the id of the task the      *)
(* pending PUT request names, opens counts the calls of openEditModal.     *)
(* showToast is the one of the page: deletion.toast is the last toast.     *)
(***************************************************************************)
\* the title every card of the board shows
CardTitle == <<"a">>

\* the title field of the edit form at a submit: the title openEditModal
\* put there, or blanks the user typed over it
EditTitles == { CardTitle, <<" ">> }

NoEditTask ==
  [display |-> FALSE, taskId |-> 0, disabled |-> FALSE,
   pc |-> "idle", answered |-> FALSE, list |-> {}, put |-> 0, opens |-> 0]

\* handleEditTask(card) on the card: returns when the card is marked as
\* being edited, else marks it; the timer it starts after opening the modal
\* is pending for as long as the card in the document carries the mark
handleEditTask(d, id) ==
  IF d.cards[id].editing = "true" THEN d
  ELSE [d EXCEPT !.cards[id].editing = "true"]

\* openEditModal(taskId, taskData): the id is stored on the form, the
\* fields take the values of the card and the modal is shown
openEditModal(f, id) ==
  [f EXCEPT !.taskId = id, !.display = TRUE, !.opens = @ + 1]

ToastEditFailed(msg) == <<"Error al actualizar tarea", msg>>

ToastLoadFailed == <<"Error cargando tareas">>

\* the submit listener of #editTaskForm up to `await updateTask(...)`: it
\* returns while the button is disabled; a missing id or a title that is
\* empty after trimming throws, which shows a toast and sends nothing
editTaskSubmit(f, title) ==
  IF f.disabled THEN [form |-> f, sent |-> FALSE, toast |-> <<>>]
  ELSE IF f.taskId = 0
    THEN [form |-> f, sent |-> FALSE,
          toast |-> ToastEditFailed("ID de tarea no encontrado")]
  ELSE IF trim(title) = <<>>
    THEN [form |-> f, sent |-> FALSE, toast |-> ToastEditFailed(TitleRequired)]
  ELSE [form |-> [f EXCEPT !.disabled = TRUE, !.pc = "updating",
                           !.answered = FALSE,
                           !.put = f.taskId],
        sent |-> TRUE, toast |-> <<>>]

\* the finally block of the submit listener
editTaskFinally(f) ==
  [f EXCEPT !.disabled = FALSE, !.pc = "idle", !.answered = FALSE, !.list = {},
            !.put = 0]

EditDismissControls == {"close-modal", "cancelEditTaskBtn", "backdrop"}

(***************************************************************************)
(* Initial states                                                          *)
(***************************************************************************)
\* localStorage survives page loads: it holds what an earlier login left
InitStores ==
  { [StoreLogin(EmptyStore, t) EXCEPT !["userName"] = n,
        !["userFirstName"] = IF n = NoValue THEN NoValue ELSE "Ana"]
      : t \in Tokens \cup {Absent}, n \in {NoValue, "Ana Paz"} }

\* logoutUser: where it stands, how the remote call ended, and whether
\* localStorage held a token when it was called; waiting counts the further
\* calls of the same click that wait for their own POST
LogoutIdle == [pc |-> "idle", outcome |-> "none", loggedIn |-> FALSE,
               waiting |-> 0]

NoAuthResult == [called |-> FALSE, token |-> Absent, now |-> 0,
                 result |-> FALSE, caught |-> FALSE]

\* sessionStorage is read by deleteUser and logoutUser; it holds the same
\* token as localStorage when an earlier page of the tab put it there
InitSession ==
  /\ localStorage \in InitStores
  /\ sessionStorage \in
       { EmptyStore, [EmptyStore EXCEPT !["token"] = localStorage["token"]] }
  /\ hash = HashHome
  /\ now = 0
  /\ lastRequest = NoRequest
  /\ authResult = NoAuthResult
  /\ logout = LogoutIdle

InitSignInForm ==
  /\ signIn = NoSignIn
  /\ loginCalls = <<>>
  /\ redirectTimers = 0

InitRouterIdle == navs = <<>> /\ appView = "blank"

InitTasksIdle ==
  /\ serverTasks = <<>>
  /\ lastCreate = NoCreate
  /\ lastPut = NoPut
  /\ tasksView = <<>>
  /\ stats = NoStats
  /\ taskFetches = <<>>
  /\ taskWrites = <<>>

InitSignUpIdle ==
  /\ signUp = NoSignUp
  /\ registerCalls = <<>>
  /\ signUpTimers = 0
  /\ lastRegister = NoRegister

InitProfileIdle ==
  /\ profile = LoadedProfile
  /\ profileCalls = 0
  /\ profileTimers = 0
  /\ lastProfileUpdate = NoProfileUpdate

InitBoardIdle == taskForm = FreshTaskForm /\ created = <<>> /\ board = FreshBoard

\* initUserProfile() has not been called
NoProfileInit == [calls |-> 0, pending |-> 0, wired |-> 0, toast |-> "none"]

\* initDashboard() has not been called
NoDashInit == [calls |-> 0, profile |-> 0, wired |-> 0]

InitOtherFormsIdle ==
  /\ InitSignUpIdle /\ InitProfileIdle /\ httpCall = NoHttpCall /\ InitBoardIdle
  /\ profileInit = NoProfileInit
  /\ dashInit = NoDashInit
  /\ editTask = NoEditTask

InitResetIdle == resetForm = FreshReset(FALSE, FALSE) /\ resetCalls = <<>>

InitFormsIdle == InitOtherFormsIdle /\ deletion = NoDeletion /\ InitResetIdle

InitDashboardIdle == dashboard = NoDashboard /\ lastClick = NoClick

InitViewsIdle == InitFormsIdle /\ InitDashboardIdle

Init ==
  InitSession /\ InitSignInForm /\ InitRouterIdle /\ InitTasksIdle /\ InitViewsIdle

\* the sign-in view loaded by an unauthenticated visitor and filled in
InitSignInFilled ==
  /\ signIn = validateForm([initSignin(FreshSignIn, FALSE).form EXCEPT
                              !.inits = 1,
                              !.email = <<" ", "a", "@", "b", ".", "c">>,
                              !.password = <<"p", "w">>])
  /\ loginCalls = <<>>
  /\ redirectTimers = 0

InitFilled ==
  /\ InitSession
  /\ InitSignInFilled
  /\ InitRouterIdle
  /\ InitTasksIdle
  /\ InitViewsIdle

(***************************************************************************)
(* Actions of the session                                                  *)
(***************************************************************************)
\* executeLogout's continuation after `await logoutUser()` is a microtask:
\* it runs before any other event is dispatched
MicrotaskPending == logout.pc = "returned"

Tick ==
  /\ ~MicrotaskPending
  /\ now < MaxTime
  /\ now' = now + 1
  /\ UNCHANGED <<localStorage, sessionStorage, hash, lastRequest, authResult,
                 logout, signInVars, routerVars, taskVars, viewVars>>

\* the body of isAuthenticated() as a state change
AuthCheck(r) ==
  /\ authResult' = [called |-> TRUE, token |-> localStorage["token"], now |-> now,
                    result |-> r.result, caught |-> r.caught]
  /\ sessionStorage' = IF r.caught THEN removeItem(sessionStorage, "token")
                                   ELSE sessionStorage

\* initDashboard up to its first await: a visitor who is not signed in is
\* sent to #/sign-in; otherwise the profile of the token's user is requested
InitDashboard ==
  /\ ~MicrotaskPending
  /\ dashInit.calls < MaxInits
  /\ LET r == isAuthenticated(localStorage["token"], now) IN
     /\ AuthCheck(r)
     /\ IF ~r.result
          THEN /\ hash' = HashSignIn
               /\ navs' = hashchange(navs, HashSignIn)
               /\ dashInit' = [dashInit EXCEPT !.calls = @ + 1]
               /\ UNCHANGED lastRequest
          ELSE /\ lastRequest' = LocalRequest("getUserProfile", localStorage)
               /\ dashInit' = [dashInit EXCEPT !.calls = @ + 1,
                                               !.profile = @ + 1]
               /\ UNCHANGED <<hash, navs>>
  /\ UNCHANGED <<localStorage, now, logout, signInVars, appView, taskVars,
                 profileInit, notGuard>>

\* what a call of initSignin() changes outside the form
InitSigninEffects(r, init) ==
  /\ IF init.checked
       THEN AuthCheck(r)
       ELSE UNCHANGED <<authResult, sessionStorage>>
  /\ hash' = IF init.redirect THEN HashDashboard ELSE hash

\* loadView("sign-in") after the fetch: the fragment replaces the document's
\* content and initSignin runs on it
InitSignin ==
  /\ ~MicrotaskPending
  /\ LET r    == isAuthenticated(localStorage["token"], now)
         init == initSignin(FreshSignIn, r.result)
     IN  /\ InitSigninEffects(r, init)
         /\ signIn' = [init.form EXCEPT !.inits = 1]
  /\ loginCalls' = Detach(loginCalls)
  /\ signUp' = NoSignUp
  /\ registerCalls' = Detach(registerCalls)
  /\ UNCHANGED <<localStorage, now, lastRequest, logout, redirectTimers,
                 routerVars, taskVars, signUpTimers, lastRegister, notSignUp>>

\* initSignin() called once more on the form that is in the document
InitSigninAgain ==
  /\ ~MicrotaskPending
  /\ signIn.present
  /\ signIn.inits < MaxInits
  /\ LET r    == isAuthenticated(localStorage["token"], now)
         init == initSignin(signIn, r.result)
     IN  /\ InitSigninEffects(r, init)
         /\ signIn' = [init.form EXCEPT !.inits = @ + 1]
  /\ UNCHANGED <<localStorage, now, lastRequest, logout, loginCalls,
                 redirectTimers, routerVars, taskVars, viewVars>>

\* a service call made by a dashboard or profile handler
ApiCall(op) ==
  /\ ~MicrotaskPending
  /\ lastRequest' = LocalRequest(op, localStorage)
  /\ UNCHANGED <<localStorage, sessionStorage, hash, now, authResult, logout,
                 signInVars, routerVars, taskVars, viewVars>>

DeleteUser ==
  /\ ~MicrotaskPending
  /\ lastRequest' = SessionRequest("deleteUser", localStorage, sessionStorage)
  /\ UNCHANGED <<localStorage, sessionStorage, hash, now, authResult, logout,
                 signInVars, routerVars, taskVars, viewVars>>

\* n calls of logoutUser in a row, each up to its await: with a token every
\* call sends its POST and waits; without one nothing is awaited and each
\* call runs through to the end, the later ones finding everything cleared
logoutUserBegin(n) ==
  /\ logout.pc = "idle"
  /\ IF sessionStorage["token"] # Absent
       THEN /\ lastRequest' = SessionRequest("logout", localStorage, sessionStorage)
            /\ logout' = [pc |-> "awaiting", outcome |-> "none",
                           loggedIn |-> localStorage["token"] # Absent,
                           waiting |-> n - 1]
            /\ UNCHANGED <<localStorage, sessionStorage, hash, navs>>
       ELSE /\ localStorage' = LogoutClearLocal(localStorage)
            /\ sessionStorage' = LogoutClearSession(sessionStorage)
            /\ hash' = HashSignIn
            /\ navs' = hashchange(navs, HashSignIn)
            /\ logout' = [pc |-> "returned", outcome |-> "skipped",
                           loggedIn |-> localStorage["token"] # Absent,
                           waiting |-> 0]
            /\ UNCHANGED lastRequest

LogoutUserStart ==
  /\ logoutUserBegin(1)
  /\ UNCHANGED <<now, authResult, signInVars, appView, taskVars, viewVars>>

\* logoutUser after the remote call settled either way
LogoutUserResume(ok) ==
  /\ logout.pc = "awaiting"
  /\ localStorage' = LogoutClearLocal(localStorage)
  /\ sessionStorage' = LogoutClearSession(sessionStorage)
  /\ hash' = HashSignIn
  /\ navs' = hashchange(navs, HashSignIn)
  /\ logout' = [logout EXCEPT !.pc = "returned",
                               !.outcome = IF ok THEN "ok" ELSE "failed"]
  /\ UNCHANGED <<now, lastRequest, authResult, signInVars, appView, taskVars,
                 viewVars>>

\* executeLogout after `await logoutUser()`; a further call of the same
\* click still waits for its POST
ExecuteLogoutFinish ==
  /\ logout.pc = "returned"
  /\ localStorage' = clear(localStorage)
  /\ sessionStorage' = clear(sessionStorage)
  /\ hash' = HashSignIn
  /\ navs' = hashchange(navs, HashSignIn)
  /\ logout' = IF logout.waiting > 0
                 THEN [logout EXCEPT !.pc = "awaiting", !.outcome = "none",
                                     !.waiting = @ - 1]
                 ELSE LogoutIdle
  /\ UNCHANGED <<now, lastRequest, authResult, signInVars, appView, taskVars,
                 viewVars>>

(***************************************************************************)
(* Actions of the sign-in form                                             *)
(***************************************************************************)
\* an input event on the e-mail or password field: the listener is validateForm
SignInInput(field, value) ==
  /\ ~MicrotaskPending
  /\ signIn.wired
  /\ signIn[field] # value
  /\ signIn' = validateForm([signIn EXCEPT ![field] = value])
  /\ UNCHANGED <<sessionVars, loginCalls, redirectTimers, routerVars, taskVars,
                 viewVars>>

\* the submit listener up to `await loginUser(...)`
SubmitStartKeepEnabled(f) ==
  LET v == validateForm(f)
  IN  [form |-> v, sent |-> ~v.disabled]

SubmitStart(f) ==
  LET v == validateForm(f)
  IN  IF v.disabled
        THEN [form |-> v, sent |-> FALSE]
        ELSE [form |-> [v EXCEPT !.disabled = TRUE, !.text = LabelBusy],
              sent |-> TRUE]

\* a submit event runs every attached submit listener in turn; each one
\* that gets past the disabled check calls loginUser
RECURSIVE signInSubmit(_, _)
signInSubmit(f, n) ==
  IF n = 0 THEN [form |-> f, calls |-> <<>>]
  ELSE LET r    == SubmitStart(f)
           call == [originalText |-> f.text, email |-> trim(f.email),
                    password |-> trim(f.password), attached |-> TRUE]
           rest == signInSubmit(r.form, n - 1)
       IN  [form |-> rest.form,
            calls |-> (IF r.sent THEN <<call>> ELSE <<>>) \o rest.calls]

\* the browser dispatches submit only through an enabled submit button
SignInSubmit ==
  /\ ~MicrotaskPending
  /\ signIn.wired
  /\ ~signIn.disabled
  /\ Len(loginCalls) + redirectTimers < MaxLoginCalls
  /\ LET r == signInSubmit(signIn, signIn.listeners) IN
     /\ signIn' = r.form
     /\ loginCalls' = loginCalls \o r.calls
  /\ UNCHANGED <<sessionVars, redirectTimers, routerVars, taskVars, viewVars>>

\* loginUser resolved with data.token = token
LoginResolve(i, token) ==
  /\ ~MicrotaskPending
  /\ i \in 1..Len(loginCalls)
  /\ localStorage' = StoreLogin(localStorage, token)
  /\ redirectTimers' = redirectTimers + 1
  /\ signIn' = SubmitFinally(signIn, loginCalls[i])
  /\ loginCalls' = RemoveAt(loginCalls, i)
  /\ UNCHANGED <<sessionStorage, hash, now, lastRequest, authResult, logout,
                 routerVars, taskVars, viewVars>>

\* loginUser rejected: the catch block shows the toast
LoginReject(i) ==
  /\ ~MicrotaskPending
  /\ i \in 1..Len(loginCalls)
  /\ signIn' = SubmitFinally(signIn, loginCalls[i])
  /\ loginCalls' = RemoveAt(loginCalls, i)
  /\ UNCHANGED <<sessionVars, redirectTimers, routerVars, taskVars, viewVars>>

\* setTimeout(() => (location.hash = "#/dashboard"), 1000)
RedirectTimerFire ==
  /\ ~MicrotaskPending
  /\ redirectTimers > 0
  /\ redirectTimers' = redirectTimers - 1
  /\ hash' = HashDashboard
  /\ UNCHANGED <<localStorage, sessionStorage, now, lastRequest, authResult,
                 logout, signIn, loginCalls, routerVars, taskVars, viewVars>>

(***************************************************************************)
(* Actions of the sign-up form                                             *)
(***************************************************************************)
\* loadView("sign-up") after the fetch: the fragment replaces the document's
\* content and initSignup runs on it
InitSignup ==
  /\ ~MicrotaskPending
  /\ signUp' = [initSignup(FreshSignUp) EXCEPT !.inits = 1]
  /\ registerCalls' = Detach(registerCalls)
  /\ signIn' = NoSignIn
  /\ loginCalls' = Detach(loginCalls)
  /\ UNCHANGED <<sessionVars, redirectTimers, routerVars, taskVars, notSignUp,
                 signUpTimers, lastRegister>>

\* loadView("sign-up") of route.js after the fetch: its own initSignup runs
\* on the fragment
RouteInitSignup ==
  /\ ~MicrotaskPending
  /\ signUp' = [routeInitSignup(FreshSignUp) EXCEPT !.inits = 1]
  /\ registerCalls' = Detach(registerCalls)
  /\ signIn' = NoSignIn
  /\ loginCalls' = Detach(loginCalls)
  /\ UNCHANGED <<sessionVars, redirectTimers, routerVars, taskVars, notSignUp,
                 signUpTimers, lastRegister>>

\* initSignup() called once more on the form that is in the document
InitSignupAgain ==
  /\ ~MicrotaskPending
  /\ signUp.present
  /\ signUp.inits < MaxInits
  /\ signUp' = [initSignup(signUp) EXCEPT !.inits = @ + 1]
  /\ UNCHANGED <<sessionVars, signInVars, routerVars, taskVars, notSignUp,
                 registerCalls, signUpTimers, lastRegister>>

\* the user changes one field: the field's input listeners run
SignUpInput(field, value) ==
  /\ ~MicrotaskPending
  /\ signUp.present
  /\ signUp[field] # value
  /\ signUp' = signUpInputListeners([signUp EXCEPT ![field] = value], field)
  /\ UNCHANGED <<sessionVars, signInVars, routerVars, taskVars, notSignUp,
                 registerCalls, signUpTimers, lastRegister>>

\* a submit event, which the browser dispatches only through an enabled
\* submit button: the listeners run up to `await registerUser(...)`, and
\* registerUser up to `await http.post(...)`
SignUpSubmit ==
  /\ ~MicrotaskPending
  /\ signUp.present
  /\ signUp.listeners > 0
  /\ ~signUp.disabled
  /\ Len(registerCalls) + signUpTimers < MaxRegisterCalls
  /\ LET r == signUpSubmit(signUp, signUp.listeners) IN
     /\ signUp' = r.form
     /\ registerCalls' = registerCalls \o r.calls
     /\ lastRegister' =
          IF r.calls = <<>> THEN lastRegister
          ELSE LET args == r.calls[Len(r.calls)] IN
               [called |-> TRUE, email |-> args.email,
                password |-> args.password, age |-> args.age,
                body |-> registerUser(args)]
  /\ UNCHANGED <<sessionVars, signInVars, routerVars, taskVars, notSignUp,
                 signUpTimers>>

\* http.post resolved: registerUser stores the name, the listener shows the
\* alert, starts the redirect timer and runs its finally block
RegisterResolve(i) ==
  /\ ~MicrotaskPending
  /\ i \in 1..Len(registerCalls)
  /\ localStorage' = StoreRegistered(localStorage, registerCalls[i])
  /\ signUpTimers' = signUpTimers + 1
  /\ signUp' = signUpFinally(signUp, registerCalls[i])
  /\ registerCalls' = RemoveAt(registerCalls, i)
  /\ UNCHANGED <<sessionStorage, hash, now, lastRequest, authResult, logout,
                 signInVars, routerVars, taskVars, notSignUp, lastRegister>>

\* http.post rejected: the catch block shows the alert and validates again
RegisterReject(i) ==
  /\ ~MicrotaskPending
  /\ i \in 1..Len(registerCalls)
  /\ signUp' = signUpFinally(signUpFinally(signUp, registerCalls[i]),
                             registerCalls[i])
  /\ registerCalls' = RemoveAt(registerCalls, i)
  /\ UNCHANGED <<sessionVars, signInVars, routerVars, taskVars, notSignUp,
                 signUpTimers, lastRegister>>

\* setTimeout(() => (location.hash = "#/sign-in"), 400)
SignUpTimerFire ==
  /\ ~MicrotaskPending
  /\ signUpTimers > 0
  /\ signUpTimers' = signUpTimers - 1
  /\ hash' = HashSignIn
  /\ UNCHANGED <<localStorage, sessionStorage, now, lastRequest, authResult,
                 logout, signInVars, routerVars, taskVars, notSignUp, signUp,
                 registerCalls, lastRegister>>

\* a visitor on #/sign-up, nobody signed in
InitSignUp ==
  /\ localStorage = EmptyStore
  /\ sessionStorage = EmptyStore
  /\ hash = HashSignUp
  /\ now = 0
  /\ lastRequest = NoRequest
  /\ authResult = NoAuthResult
  /\ logout = LogoutIdle
  /\ InitSignInForm
  /\ InitRouterIdle
  /\ InitTasksIdle
  /\ InitViewsIdle

\* the sign-up form: field input, submit, and the awaited registration
NextSignUp ==
  \/ InitSignup
  \/ \E v \in SignUpEmails : SignUpInput("email", v)
  \/ \E v \in SignUpPasswords : SignUpInput("password", v)
  \/ \E v \in SignUpPasswords : SignUpInput("confirm", v)
  \/ \E v \in SignUpAges : SignUpInput("age", v)
  \/ SignUpSubmit
  \/ \E i \in 1..MaxRegisterCalls : RegisterResolve(i)
  \/ \E i \in 1..MaxRegisterCalls : RegisterReject(i)
  \/ SignUpTimerFire

SpecSignUp == InitSignUp /\ [][NextSignUp]_vars

\* the sign-up form as route.js wires it
NextSignUpRoute ==
  \/ RouteInitSignup
  \/ \E v \in SignUpEmails : SignUpInput("email", v)
  \/ \E v \in SignUpPasswords : SignUpInput("password", v)
  \/ \E v \in SignUpPasswords : SignUpInput("confirm", v)
  \/ \E v \in SignUpAges : SignUpInput("age", v)
  \/ SignUpSubmit
  \/ \E i \in 1..MaxRegisterCalls : RegisterResolve(i)
  \/ \E i \in 1..MaxRegisterCalls : RegisterReject(i)
  \/ SignUpTimerFire

SpecSignUpRoute == InitSignUp /\ [][NextSignUpRoute]_vars

\* a timer that was started fires: the browser runs due timer callbacks
SpecSignUpLive == SpecSignUp /\ WF_vars(SignUpTimerFire)

(***************************************************************************)
(* Actions of the profile form                                             *)
(***************************************************************************)
\* the user changes a profile field; the age listener (validateAge) only
\* shows or hides the #age-error hint
ProfileInput(field, value) ==
  /\ profile[field] # value
  /\ profile' = [profile EXCEPT ![field] = value]
  /\ UNCHANGED <<sessionVars, signInVars, routerVars, taskVars, notProfile,
                 profileCalls, profileTimers, lastProfileUpdate>>

\* submit of the profile form, with the confirmation modal closed
ProfileSubmit ==
  /\ ~profile.modal
  /\ ~profile.saveDisabled
  /\ profile' = profileSubmit(profile)
  /\ UNCHANGED <<sessionVars, signInVars, routerVars, taskVars, notProfile,
                 profileCalls, profileTimers, lastProfileUpdate>>

\* the close button, the cancel button or a click outside the modal
ProfileModalClose ==
  /\ profile.modal
  /\ profile' = [profile EXCEPT !.modal = FALSE]
  /\ UNCHANGED <<sessionVars, signInVars, routerVars, taskVars, notProfile,
                 profileCalls, profileTimers, lastProfileUpdate>>

\* click on #confirmEditProfile: the modal closes and executeProfileUpdate
\* runs up to `await updateUserProfile(...)`
ProfileConfirm ==
  /\ profile.modal
  /\ profileCalls + profileTimers < MaxProfileCalls
  /\ IF getCurrentUser(localStorage["token"])
       THEN /\ profile' = [profile EXCEPT !.modal = FALSE,
                             !.saveDisabled = TRUE, !.saveText = LabelSaving]
            /\ lastProfileUpdate' = [called |-> TRUE, body |-> updateData(profile)]
            /\ lastRequest' = LocalRequest("updateUserProfile", localStorage)
            /\ profileCalls' = profileCalls + 1
       ELSE \* currentUser.userId throws: catch shows the toast, finally runs
            /\ profile' = [profile EXCEPT !.modal = FALSE,
                             !.saveDisabled = FALSE, !.saveText = LabelSave,
                             !.toast = "error"]
            /\ UNCHANGED <<lastProfileUpdate, lastRequest, profileCalls>>
  /\ UNCHANGED <<localStorage, sessionStorage, hash, now, authResult, logout,
                 signInVars, routerVars, taskVars, notProfile, profileTimers>>

\* updateUserProfile resolved: success toast, redirect timer, finally block
ProfileUpdateResolve ==
  /\ profileCalls > 0
  /\ profileCalls' = profileCalls - 1
  /\ profileTimers' = profileTimers + 1
  /\ profile' = [profile EXCEPT !.saveDisabled = FALSE, !.saveText = LabelSave,
                                !.toast = "success"]
  /\ UNCHANGED <<sessionVars, signInVars, routerVars, taskVars, notProfile,
                 lastProfileUpdate>>

\* updateUserProfile rejected: error toast, finally block
ProfileUpdateReject ==
  /\ profileCalls > 0
  /\ profileCalls' = profileCalls - 1
  /\ profile' = [profile EXCEPT !.saveDisabled = FALSE, !.saveText = LabelSave,
                                !.toast = "error"]
  /\ UNCHANGED <<sessionVars, signInVars, routerVars, taskVars, notProfile,
                 profileTimers, lastProfileUpdate>>

\* setTimeout(() => { location.hash = "#/dashboard" }, 1500)
ProfileTimerFire ==
  /\ profileTimers > 0
  /\ profileTimers' = profileTimers - 1
  /\ hash' = HashDashboard
  /\ UNCHANGED <<localStorage, sessionStorage, now, lastRequest, authResult,
                 logout, signInVars, routerVars, taskVars, notProfile, profile,
                 profileCalls, lastProfileUpdate>>

HashProfile == <<"#", "/", "user-profile">>

\* a signed-in user on the profile view, the form loaded
InitProfile ==
  /\ localStorage = StoreLogin(EmptyStore, Jwt(MaxTime))
  /\ sessionStorage = EmptyStore
  /\ hash = HashProfile
  /\ now = 0
  /\ lastRequest = NoRequest
  /\ authResult = NoAuthResult
  /\ logout = LogoutIdle
  /\ InitSignInForm
  /\ InitRouterIdle
  /\ InitTasksIdle
  /\ InitViewsIdle

NextProfile ==
  \/ \E v \in ProfileNames : ProfileInput("firstName", v)
  \/ \E v \in ProfileAges : ProfileInput("age", v)
  \/ ProfileSubmit
  \/ ProfileModalClose
  \/ ProfileConfirm
  \/ ProfileUpdateResolve
  \/ ProfileUpdateReject
  \/ ProfileTimerFire

SpecProfile == InitProfile /\ [][NextProfile]_vars

(***************************************************************************)
(* Actions of the HTTP client wrapper                                      *)
(***************************************************************************)
\* one call of request() whose fetch resolved with the response res
HttpRequest(res) ==
  /\ httpCall' = [called |-> TRUE, network |-> FALSE, response |-> res,
                  outcome |-> request(res)]
  /\ UNCHANGED <<sessionVars, signInVars, routerVars, taskVars, notHttp>>

\* one call of request() whose fetch rejected: the rejection propagates
HttpNetworkFailure ==
  /\ httpCall' = [NoHttpCall EXCEPT !.called = TRUE, !.network = TRUE,
                    !.outcome = [throws |-> TRUE, message |-> "Failed to fetch",
                                 value |-> JsonNull]]
  /\ UNCHANGED <<sessionVars, signInVars, routerVars, taskVars, notHttp>>

NextHttp ==
  \/ \E res \in Responses : HttpRequest(res)
  \/ HttpNetworkFailure

SpecHttp == Init /\ [][NextHttp]_vars

(***************************************************************************)
(* The two form views together: the router swaps them, their initializers  *)
(* may be called again                                                     *)
(***************************************************************************)
ValidSignUpPassword == <<"A", "b", "c", "d", "1", "2", "3", "!">>

NextForms ==
  \/ InitSignin
  \/ InitSigninAgain
  \/ \E v \in EmailValues : SignInInput("email", v)
  \/ \E v \in PasswordValues : SignInInput("password", v)
  \/ SignInSubmit
  \/ \E i \in 1..MaxLoginCalls : LoginResolve(i, Jwt(MaxTime))
  \/ \E i \in 1..MaxLoginCalls : LoginReject(i)
  \/ RedirectTimerFire
  \/ InitSignup
  \/ InitSignupAgain
  \/ \E v \in SignUpEmails : SignUpInput("email", v)
  \/ SignUpInput("password", ValidSignUpPassword)
  \/ SignUpInput("confirm", ValidSignUpPassword)
  \/ SignUpInput("age", <<"2", "0">>)
  \/ SignUpSubmit
  \/ \E i \in 1..MaxRegisterCalls : RegisterResolve(i)
  \/ \E i \in 1..MaxRegisterCalls : RegisterReject(i)
  \/ SignUpTimerFire

SpecForms == InitSignUp /\ [][NextForms]_vars

\* the session as the views drive it: sign-in, service calls, logout
Next ==
  \/ \E op \in LocalOps : ApiCall(op)
  \/ DeleteUser
  \/ LogoutUserStart
  \/ \E ok \in BOOLEAN : LogoutUserResume(ok)
  \/ ExecuteLogoutFinish
  \/ SignInSubmit
  \/ \E i \in 1..MaxLoginCalls : \E t \in Tokens : LoginResolve(i, t)
  \/ \E i \in 1..MaxLoginCalls : LoginReject(i)
  \/ RedirectTimerFire

Spec == InitFilled /\ [][Next]_vars

\* the sign-in form: field input, submit, and the awaited login call
NextSignIn ==
  \/ InitSignin
  \/ \E v \in EmailValues : SignInInput("email", v)
  \/ \E v \in PasswordValues : SignInInput("password", v)
  \/ SignInSubmit
  \/ \E i \in 1..MaxLoginCalls : \E t \in Tokens : LoginResolve(i, t)
  \/ \E i \in 1..MaxLoginCalls : LoginReject(i)
  \/ RedirectTimerFire

SpecSignIn == Init /\ [][NextSignIn]_vars


(***************************************************************************)
(* Actions of the task access module                                       *)
(***************************************************************************)
\* a signed-in session with the views idle
InitSignedIn ==
  /\ localStorage = StoreLogin(EmptyStore, Jwt(MaxTime))
  /\ sessionStorage = EmptyStore
  /\ hash = HashDashboard
  /\ now = 0
  /\ lastRequest = NoRequest
  /\ authResult = NoAuthResult
  /\ logout = LogoutIdle

InitTasks ==
  /\ InitSignedIn
  /\ InitSignInForm
  /\ InitRouterIdle
  /\ InitTasksIdle
  /\ InitViewsIdle

\* the POST requests among the requests that are on their way
PostsOf(ws) == { k \in 1..Len(ws) : ws[k].op = "post" }

\* createTask({title, detail, dueDate, status}): the payload is handed to
\* http.post, which sends POST /tasks; the call returns the pending promise
CreateTask(status) ==
  /\ Len(taskWrites) < MaxWrites
  /\ Len(serverTasks) + Cardinality(PostsOf(taskWrites)) < MaxTasks
  /\ lastRequest' = LocalRequest("createTask", localStorage)
  /\ lastCreate' = [status |-> status, state |-> mapStatus(status), index |-> 0]
  /\ taskWrites' = Append(taskWrites, [op |-> "post", index |-> 0,
                                       body |-> {<<"state", mapStatus(status)>>}])
  /\ UNCHANGED <<localStorage, sessionStorage, hash, now, authResult, logout,
                 signInVars, routerVars, serverTasks, tasksView, stats,
                 taskFetches, lastPut, viewVars>>

\* the server handles the k-th request that is on its way: POST /tasks
\* stores the payload as a new task, PUT /tasks/:id replaces the fields the
\* body names.  lastCreate.index is where the task of the most recent
\* createTask() was stored
TaskWriteHandled(k) ==
  /\ k \in 1..Len(taskWrites)
  /\ LET w == taskWrites[k] IN
     IF w.op = "post"
       THEN /\ serverTasks' = Append(serverTasks,
                                     serverPut([state |-> "", date |-> NoDate], w.body))
            /\ lastCreate' = IF lastCreate.index = 0
                                  /\ \A j \in PostsOf(taskWrites) : j <= k
                               THEN [lastCreate EXCEPT !.index = Len(serverTasks) + 1]
                               ELSE lastCreate
       ELSE /\ serverTasks' = [serverTasks EXCEPT ![w.index] = serverPut(@, w.body)]
            /\ UNCHANGED lastCreate
  /\ taskWrites' = RemoveAt(taskWrites, k)
  /\ UNCHANGED <<sessionVars, signInVars, routerVars, tasksView, stats,
                 taskFetches, lastPut, viewVars>>

\* a task written through the API by another client
ExternalTask(state) ==
  /\ Len(serverTasks) < MaxTasks
  /\ serverTasks' = Append(serverTasks, [state |-> state, date |-> NoDate])
  /\ UNCHANGED <<sessionVars, signInVars, routerVars, lastCreate, taskWrites, tasksView, stats,
                 taskFetches, lastPut, viewVars>>

\* a getTasks() call waiting at `await http.get("/tasks")`: caller is
\* getTasks (called directly) or getTaskStats; list is the response body
\* once the server has answered
FetchSent(caller) == [caller |-> caller, answered |-> FALSE, list |-> <<>>]

\* getTasks() up to `await http.get("/tasks", ...)`
GetTasks ==
  /\ Len(taskFetches) < MaxFetches
  /\ lastRequest' = LocalRequest("getTasks", localStorage)
  /\ taskFetches' = Append(taskFetches, FetchSent("getTasks"))
  /\ UNCHANGED <<localStorage, sessionStorage, hash, now, authResult, logout,
                 signInVars, routerVars, serverTasks, lastCreate, taskWrites, tasksView,
                 stats, lastPut, viewVars>>

\* getTaskStats() up to `await getTasks()`, which waits at its http.get
GetTaskStats ==
  /\ Len(taskFetches) < MaxFetches
  /\ lastRequest' = LocalRequest("getTasks", localStorage)
  /\ taskFetches' = Append(taskFetches, FetchSent("getTaskStats"))
  /\ UNCHANGED <<localStorage, sessionStorage, hash, now, authResult, logout,
                 signInVars, routerVars, serverTasks, lastCreate, taskWrites, tasksView,
                 stats, lastPut, viewVars>>

\* the server answers GET /tasks with the list it holds
GetTasksAnswer(i) ==
  /\ i \in 1..Len(taskFetches)
  /\ ~taskFetches[i].answered
  /\ taskFetches' = [taskFetches EXCEPT ![i].answered = TRUE,
                                        ![i].list = serverTasks]
  /\ UNCHANGED <<sessionVars, signInVars, routerVars, serverTasks, lastCreate, taskWrites,
                 tasksView, stats, lastPut, viewVars>>

\* the call continues when the response arrived (ok) or http.get rejected:
\* getTasks() maps the list and returns it, or throws; getTaskStats() counts
\* over the returned list, or catches and returns zeros
GetTasksSettle(i, ok) ==
  /\ i \in 1..Len(taskFetches)
  /\ taskFetches[i].caller \in {"getTasks", "getTaskStats"}
  /\ ok => taskFetches[i].answered
  /\ LET call == taskFetches[i] IN
     IF call.caller = "getTasks"
       THEN /\ tasksView' = IF ok THEN getTasks(call.list) ELSE tasksView
            /\ UNCHANGED stats
       ELSE /\ stats' = IF ok
                          THEN [called |-> TRUE, failed |-> FALSE, list |-> call.list,
                                counts |-> getTaskStats(getTasks(call.list))]
                          ELSE [NoStats EXCEPT !.called = TRUE, !.failed = TRUE]
            /\ UNCHANGED tasksView
  /\ taskFetches' = RemoveAt(taskFetches, i)
  /\ UNCHANGED <<sessionVars, signInVars, routerVars, serverTasks, lastCreate, taskWrites,
                 lastPut, viewVars>>

\* updateTaskStatus(taskId, newStatus) for the i-th task: updateTask hands
\* the payload to http.put, which sends PUT /tasks/:id
UpdateTaskStatus(i, newStatus) ==
  /\ i \in 1..Len(serverTasks)
  /\ Len(taskWrites) < MaxWrites
  /\ LET body == updateTaskStatus(newStatus) IN
     /\ lastPut' = [called |-> TRUE, index |-> i, newStatus |-> newStatus,
                    body |-> body]
     /\ taskWrites' = Append(taskWrites, [op |-> "put", index |-> i, body |-> body])
  /\ lastRequest' = LocalRequest("updateTask", localStorage)
  /\ UNCHANGED <<localStorage, sessionStorage, hash, now, authResult, logout,
                 signInVars, routerVars, serverTasks, lastCreate, tasksView, stats,
                 taskFetches, viewVars>>

NextTasks ==
  \/ \E st \in FrontStatuses : CreateTask(st)
  \/ \E k \in 1..MaxWrites : TaskWriteHandled(k)
  \/ \E st \in BackendStates : ExternalTask(st)
  \/ GetTasks
  \/ GetTaskStats
  \/ \E i \in 1..MaxFetches : GetTasksAnswer(i)
  \/ \E i \in 1..MaxFetches, ok \in BOOLEAN : GetTasksSettle(i, ok)

SpecTasks == InitTasks /\ [][NextTasks]_vars

\* the statistics over a list that any client of the API has written
NextTaskStats ==
  \/ \E st \in BackendStates : ExternalTask(st)
  \/ GetTaskStats
  \/ \E i \in 1..MaxFetches : GetTasksAnswer(i)
  \/ \E i \in 1..MaxFetches, ok \in BOOLEAN : GetTasksSettle(i, ok)

SpecTaskStats == InitTasks /\ [][NextTaskStats]_vars

\* getTaskStats() of taskService.js without the mapping, up to
\* `await getTasks()`, which returns the pending promise of http.get
ServiceGetTaskStats ==
  /\ Len(taskFetches) < MaxFetches
  /\ lastRequest' = LocalRequest("getTasks", localStorage)
  /\ taskFetches' = Append(taskFetches, FetchSent("serviceGetTaskStats"))
  /\ UNCHANGED <<localStorage, sessionStorage, hash, now, authResult, logout,
                 signInVars, routerVars, serverTasks, lastCreate, taskWrites, tasksView,
                 stats, lastPut, viewVars>>

\* that call continues: it counts over the list of the response, or catches
\* the failure and returns zeros
ServiceGetTaskStatsSettle(i, ok) ==
  /\ i \in 1..Len(taskFetches)
  /\ taskFetches[i].caller = "serviceGetTaskStats"
  /\ ok => taskFetches[i].answered
  /\ stats' = IF ok
                THEN [called |-> TRUE, failed |-> FALSE, list |-> taskFetches[i].list,
                      counts |-> serviceGetTaskStats(taskFetches[i].list)]
                ELSE [NoStats EXCEPT !.called = TRUE, !.failed = TRUE]
  /\ taskFetches' = RemoveAt(taskFetches, i)
  /\ UNCHANGED <<sessionVars, signInVars, routerVars, serverTasks, lastCreate, taskWrites,
                 tasksView, lastPut, viewVars>>

\* the statistics of taskService.js without the mapping
NextTaskStatsService ==
  \/ \E st \in BackendStates : ExternalTask(st)
  \/ ServiceGetTaskStats
  \/ \E i \in 1..MaxFetches : GetTasksAnswer(i)
  \/ \E i \in 1..MaxFetches, ok \in BOOLEAN : ServiceGetTaskStatsSettle(i, ok)

SpecTaskStatsService == InitTasks /\ [][NextTaskStatsService]_vars

\* tasks are created and their status is changed
NextTaskUpdate ==
  \/ \E st \in FrontStatuses : CreateTask(st)
  \/ \E k \in 1..MaxWrites : TaskWriteHandled(k)
  \/ \E st \in BackendStates : ExternalTask(st)
  \/ \E i \in 1..MaxTasks, st \in FrontStatuses : UpdateTaskStatus(i, st)

SpecTaskUpdate == InitTasks /\ [][NextTaskUpdate]_vars

(***************************************************************************)
(* initDashboard of the dashboard view after its awaits                     *)
(***************************************************************************)
\* what getUserProfile can settle with: a profile with both names, a
\* profile that lacks one, a rejection
ProfileOutcomes == {"names", "no names", "rejected"}

\* initDashboard after `await getUserProfile(...)`: a profile with both names
\* is shown and stored, the other outcomes fall back to the e-mail or the
\* stored name; then loadTasksFromBackend() up to `await getTasks()`
InitDashboardProfile(outcome) ==
  /\ ~MicrotaskPending
  /\ dashInit.profile > 0
  /\ Len(taskFetches) < MaxFetches
  /\ localStorage' = IF outcome = "names"
                       THEN [localStorage EXCEPT !["userName"] = "Ana Paz",
                                                 !["userFirstName"] = "Ana"]
                       ELSE localStorage
  /\ lastRequest' = LocalRequest("getTasks", localStorage')
  /\ taskFetches' = Append(taskFetches, FetchSent("initDashboard"))
  /\ dashInit' = [dashInit EXCEPT !.profile = @ - 1]
  /\ UNCHANGED <<sessionStorage, hash, now, authResult, logout, signInVars,
                 routerVars, serverTasks, lastCreate, taskWrites, lastPut, tasksView, stats,
                 profileInit, notGuard>>

\* initDashboard after `await loadTasksFromBackend()`, which rendered the
\* answer or caught the failure: initUserDropdown(); initCreateTaskModal();
\* initEditTaskModal(); initTaskActions(); initDeleteTaskModal();
\* initLogoutModal()
InitDashboardLoaded(i, ok) ==
  /\ ~MicrotaskPending
  /\ i \in 1..Len(taskFetches)
  /\ taskFetches[i].caller = "initDashboard"
  /\ ok => taskFetches[i].answered
  /\ board' = IF ok THEN loadTasksRender(getTasks(taskFetches[i].list)) ELSE board
  /\ taskFetches' = RemoveAt(taskFetches, i)
  /\ dashInit' = [dashInit EXCEPT !.wired = @ + 1]
  /\ UNCHANGED <<sessionVars, signInVars, routerVars, serverTasks, lastCreate, taskWrites,
                 lastPut, tasksView, stats, taskForm, created, profileInit,
                 signUpVars, profileVars, httpVars, dashVars, deleteVars, resetVars>>

\* the authentication check as time passes: guarded views, login, logout
NextAuth ==
  \/ Tick
  \/ InitDashboard
  \/ \E o \in ProfileOutcomes : InitDashboardProfile(o)
  \/ \E i \in 1..MaxFetches : GetTasksAnswer(i)
  \/ \E i \in 1..MaxFetches, ok \in BOOLEAN : InitDashboardLoaded(i, ok)
  \/ SignInSubmit
  \/ \E i \in 1..MaxLoginCalls : \E t \in Tokens : LoginResolve(i, t)
  \/ \E i \in 1..MaxLoginCalls : LoginReject(i)
  \/ LogoutUserStart
  \/ \E ok \in BOOLEAN : LogoutUserResume(ok)
  \/ ExecuteLogoutFinish

SpecAuth == InitFilled /\ [][NextAuth]_vars

\* the dashboard view's initializer alone: the check, the profile, the tasks
NextInitDashboard ==
  \/ Tick
  \/ InitDashboard
  \/ \E o \in ProfileOutcomes : InitDashboardProfile(o)
  \/ \E i \in 1..MaxFetches : GetTasksAnswer(i)
  \/ \E i \in 1..MaxFetches, ok \in BOOLEAN : InitDashboardLoaded(i, ok)

SpecInitDashboard == InitFilled /\ [][NextInitDashboard]_vars

(***************************************************************************)
(* Actions of the router                                                   *)
(***************************************************************************)
\* initRouter(): the listener is attached and the first render has started
InitRouter ==
  /\ localStorage = EmptyStore
  /\ sessionStorage = EmptyStore
  /\ hash \in NavHashes
  /\ now = 0
  /\ lastRequest = NoRequest
  /\ authResult = NoAuthResult
  /\ logout = LogoutIdle
  /\ InitSignInForm
  /\ InitTasksIdle
  /\ InitViewsIdle
  /\ navs = <<HandleRouteNav(hash)>>
  /\ appView = "blank"

\* the location changes (a link or the address bar)
Navigate(h) ==
  /\ ~MicrotaskPending
  /\ Len(navs) < MaxNavs
  /\ h # hash
  /\ hash' = h
  /\ navs' = Append(navs, QueuedNav)
  /\ UNCHANGED <<localStorage, sessionStorage, now, lastRequest, authResult,
                 logout, signInVars, appView, taskVars, viewVars>>

\* the hashchange listener: handleRoute reads the hash as it is now
HandleRoute(i) ==
  /\ ~MicrotaskPending
  /\ i \in 1..Len(navs)
  /\ navs[i].stage = "queued"
  /\ \A k \in 1..(i - 1) : navs[k].stage # "queued"
  /\ navs' = [navs EXCEPT ![i] = HandleRouteNav(hash)]
  /\ UNCHANGED <<sessionVars, signInVars, appView, taskVars, viewVars>>

\* loadView after the fetch settled with res.ok: app.innerHTML = html replaces
\* the fragment of the view shown before, then the view's initializer runs up
\* to its first await.  initBoard is not defined: the call throws and
\* handleRoute's catch shows the error.  initSignin redirects a signed-in
\* visitor, initDashboard turns away a visitor who is not signed in and
\* otherwise goes on to loadTasksFromBackend(), which sends GET /tasks
LoadViewOk(i) ==
  /\ ~MicrotaskPending
  /\ i \in 1..Len(navs)
  /\ navs[i].stage = "fetching"
  /\ LET name == navs[i].route
         r    == isAuthenticated(localStorage["token"], now)
         init == initSignin(FreshSignIn, r.result)
         d    == [dashboard EXCEPT !.loads = @ + 1]
         done == IF name \in KnownRoutes \ DefinedInits
                   THEN [navs EXCEPT ![i].stage = "failed", ![i].loaded = name]
                   ELSE [navs EXCEPT ![i].stage = "done", ![i].loaded = name,
                           ![i].inits = IF name \in DefinedInits
                                          THEN <<[view |-> name, arg |-> <<>>]>>
                                          ELSE <<>>]
     IN  /\ appView' = IF name \in KnownRoutes \ DefinedInits THEN "error" ELSE name
         /\ loginCalls' = Detach(loginCalls)
         /\ registerCalls' = Detach(registerCalls)
         /\ signIn' = IF name = "sign-in" THEN [init.form EXCEPT !.inits = 1]
                                          ELSE NoSignIn
         /\ signUp' = IF name = "sign-up"
                        THEN [initSignup(FreshSignUp) EXCEPT !.inits = 1]
                        ELSE NoSignUp
         /\ CASE name = "dashboard" ->
                   /\ AuthCheck(r)
                   /\ IF r.result
                        THEN /\ dashboard' = [InjectDashboard(d) EXCEPT
                                                !.pending = @ + 1]
                             /\ lastRequest' = LocalRequest("getTasks", localStorage)
                             /\ navs' = done
                             /\ UNCHANGED hash
                        ELSE /\ dashboard' = InjectDashboard(d)
                             /\ hash' = HashSignIn
                             /\ navs' = hashchange(done, HashSignIn)
                             /\ UNCHANGED lastRequest
              [] name = "sign-in" ->
                   /\ InitSigninEffects(r, init)
                   /\ navs' = IF init.redirect THEN hashchange(done, HashDashboard)
                                               ELSE done
                   /\ dashboard' = InjectOther(d)
                   /\ UNCHANGED lastRequest
              [] OTHER ->
                   /\ navs' = done
                   /\ dashboard' = InjectOther(d)
                   /\ UNCHANGED <<hash, lastRequest, authResult, sessionStorage>>
  /\ UNCHANGED <<localStorage, now, logout, redirectTimers, taskVars, signUpTimers,
                 lastRegister, profileVars, httpVars, lastClick, boardVars,
                 guardVars, deleteVars, resetVars>>

\* a failed fetch that leaves the content of the page as it is
LoadViewFailSilent(i) ==
  /\ ~MicrotaskPending
  /\ i \in 1..Len(navs)
  /\ navs[i].stage = "fetching"
  /\ navs' = [navs EXCEPT ![i].stage = "failed"]
  /\ UNCHANGED <<sessionVars, signInVars, appView, taskVars, viewVars>>

\* loadView when the fetch rejected or res.ok is false: handleRoute's catch
\* puts the error message in place of the fragment that was shown
LoadViewFail(i) ==
  /\ ~MicrotaskPending
  /\ i \in 1..Len(navs)
  /\ navs[i].stage = "fetching"
  /\ navs' = [navs EXCEPT ![i].stage = "failed"]
  /\ appView' = "error"
  /\ signIn' = NoSignIn
  /\ loginCalls' = Detach(loginCalls)
  /\ signUp' = NoSignUp
  /\ registerCalls' = Detach(registerCalls)
  /\ dashboard' = InjectOther(dashboard)
  /\ UNCHANGED <<sessionVars, redirectTimers, taskVars, signUpTimers,
                 lastRegister, profileVars, httpVars, lastClick, boardVars,
                 guardVars, deleteVars, resetVars>>

NextRouter ==
  \/ \E h \in NavHashes : Navigate(h)
  \/ \E i \in DOMAIN navs : HandleRoute(i)
  \/ \E i \in DOMAIN navs : LoadViewOk(i)
  \/ \E i \in DOMAIN navs : LoadViewFail(i)

SpecRouter == InitRouter /\ [][NextRouter]_vars

\* the hashes the client's own code assigns to location.hash: the guards
\* and the logout (#/sign-in), the login redirect and the task option
\* (#/dashboard), the deleted account (#/home), the profile option of the
\* dashboard's user menu (#/user-profile)
ClientHashes == { HashSignIn, HashDashboard, HashHome, HashProfile }

\* the router while the client's code navigates
NextClientNav ==
  \/ \E h \in ClientHashes : Navigate(h)
  \/ \E i \in DOMAIN navs : HandleRoute(i)
  \/ \E i \in DOMAIN navs : LoadViewOk(i)
  \/ \E i \in DOMAIN navs : LoadViewFail(i)

SpecClientNav == InitRouter /\ [][NextClientNav]_vars

(***************************************************************************)
(* Actions of the dashboard                                                *)
(***************************************************************************)
\* initRouter() in a signed-in session whose hash is #/dashboard
InitDashboardSession ==
  /\ localStorage = StoreLogin(EmptyStore, Jwt(MaxTime))
  /\ sessionStorage \in
       { EmptyStore, [EmptyStore EXCEPT !["token"] = localStorage["token"]] }
  /\ hash = HashDashboard
  /\ now = 0
  /\ lastRequest = NoRequest
  /\ authResult = NoAuthResult
  /\ logout = LogoutIdle
  /\ InitSignInForm
  /\ navs = <<HandleRouteNav(hash)>>
  /\ appView = "blank"
  /\ InitTasksIdle
  /\ InitFormsIdle
  /\ InitDashboardIdle

\* the user moves between #/home and #/dashboard: the hash is assigned and
\* a hashchange event is queued (the user waits for the views to load
\* before leaving)
DashboardNavigate(h) ==
  /\ ~MicrotaskPending
  /\ h \in {HashHome, HashDashboard}
  /\ h # hash
  /\ \A k \in 1..Len(navs) : navs[k].stage \in {"done", "failed"}
  /\ dashboard.loads < MaxEntries
  /\ hash' = h
  /\ navs' = hashchange(navs, h)
  /\ UNCHANGED <<localStorage, sessionStorage, now, lastRequest, authResult,
                 logout, signInVars, appView, taskVars, viewVars>>

\* initDashboard after loadTasksFromBackend settled (it catches its errors):
\* initUserDropdown(); initCreateTaskModal(); initTaskActions()
InitDashboardResume(ok, shown) ==
  /\ ~MicrotaskPending
  /\ dashboard.pending > 0
  /\ dashboard' = initTaskActions(initUserDropdown(
                     renderTasks([dashboard EXCEPT !.pending = @ - 1], ok, shown)))
  /\ UNCHANGED <<sessionVars, signInVars, routerVars, taskVars, lastClick, notDash>>

\* one click on a card's delete or edit button: every click listener of the
\* document runs; each asks (confirm / prompt) and, when the user accepts,
\* calls the service before its first await
ClickTaskButton(control, accepted) ==
  /\ ~MicrotaskPending
  /\ dashboard.present /\ dashboard.cards
  /\ accepted \in 0..dashboard.documentClick
  /\ dashboard.calls + dashboard.reloads + accepted <= MaxTaskCalls
  /\ lastClick' = [control |-> control, action |-> CallOf(control),
                   calls |-> accepted]
  /\ dashboard' = [dashboard EXCEPT !.calls = @ + accepted]
  /\ lastRequest' = IF accepted > 0
                      THEN LocalRequest(CallOf(control), localStorage)
                      ELSE lastRequest
  /\ UNCHANGED <<localStorage, sessionStorage, hash, now, authResult, logout,
                 signInVars, routerVars, taskVars, notDash>>

\* a listener after `await deleteTask(...)` / `await updateTask(...)`: on
\* success showToast, then loadTasksFromBackend() up to `await getTasks()`;
\* on failure showToast
TaskCallSettle(ok) ==
  /\ ~MicrotaskPending
  /\ dashboard.calls > 0
  /\ dashboard' = [dashboard EXCEPT !.calls = @ - 1,
                                    !.reloads = IF ok THEN @ + 1 ELSE @]
  /\ lastRequest' = IF ok THEN LocalRequest("getTasks", localStorage)
                          ELSE lastRequest
  /\ UNCHANGED <<localStorage, sessionStorage, hash, now, authResult, logout,
                 signInVars, routerVars, taskVars, lastClick, notDash>>

\* the listener's loadTasksFromBackend() after getTasks settled: the columns
\* of the document are rendered again, or the failure is caught and shown
TaskReloadSettle(ok, shown) ==
  /\ ~MicrotaskPending
  /\ dashboard.reloads > 0
  /\ dashboard' = renderTasks([dashboard EXCEPT !.reloads = @ - 1], ok, shown)
  /\ UNCHANGED <<sessionVars, signInVars, routerVars, taskVars, lastClick, notDash>>

\* one click on #logoutOption: each of its listeners calls logoutUser()
ClickLogout ==
  /\ ~MicrotaskPending
  /\ dashboard.present
  /\ dashboard.logoutOption > 0
  /\ logoutUserBegin(dashboard.logoutOption)
  /\ lastClick' = [control |-> "logoutOption", action |-> "logoutUser",
                   calls |-> dashboard.logoutOption]
  /\ UNCHANGED <<now, authResult, signInVars, appView, taskVars, dashboard,
                 notDash>>

NextDashboard ==
  \/ \E h \in {HashHome, HashDashboard} : DashboardNavigate(h)
  \/ \E i \in DOMAIN navs : HandleRoute(i)
  \/ \E i \in DOMAIN navs : LoadViewOk(i)
  \/ \E ok \in BOOLEAN, shown \in BOOLEAN : InitDashboardResume(ok, shown)
  \/ \E c \in TaskButtons, n \in 0..MaxEntries : ClickTaskButton(c, n)
  \/ \E ok \in BOOLEAN : TaskCallSettle(ok)
  \/ \E ok \in BOOLEAN, shown \in BOOLEAN : TaskReloadSettle(ok, shown)
  \/ ClickLogout
  \/ \E ok \in BOOLEAN : LogoutUserResume(ok)
  \/ ExecuteLogoutFinish

SpecDashboard == InitDashboardSession /\ [][NextDashboard]_vars

(***************************************************************************)
(* The guarded views: initDashboard and initUserProfile                    *)
(***************************************************************************)
\* initUserProfile() going on to loadUserData() whatever the guards say
InitUserProfileUnguarded ==
  /\ ~MicrotaskPending
  /\ profileInit.calls < MaxInits
  /\ AuthCheck(isAuthenticated(localStorage["token"], now))
  /\ lastRequest' = LocalRequest("getUserProfile", localStorage)
  /\ profileInit' = [profileInit EXCEPT !.calls = @ + 1, !.pending = @ + 1]
  /\ UNCHANGED <<localStorage, hash, now, logout, signInVars, routerVars,
                 taskVars, dashInit, notGuard>>

\* initUserProfile() up to its first await: the two guards, then
\* loadUserData() up to `await getUserProfile(currentUser.userId)`
InitUserProfile ==
  /\ ~MicrotaskPending
  /\ profileInit.calls < MaxInits
  /\ LET r == isAuthenticated(localStorage["token"], now) IN
     /\ AuthCheck(r)
     /\ IF ~r.result \/ ~getCurrentUser(localStorage["token"])
          THEN /\ hash' = HashSignIn
               /\ navs' = hashchange(navs, HashSignIn)
               /\ profileInit' = [profileInit EXCEPT !.calls = @ + 1]
               /\ UNCHANGED lastRequest
          ELSE /\ lastRequest' = LocalRequest("getUserProfile", localStorage)
               /\ profileInit' = [profileInit EXCEPT !.calls = @ + 1,
                                                     !.pending = @ + 1]
               /\ UNCHANGED <<hash, navs>>
  /\ UNCHANGED <<localStorage, now, logout, signInVars, appView, taskVars,
                 dashInit, notGuard>>

\* initUserProfile() after `await loadUserData()`: getUserProfile resolved
\* with userProfile and the fields were filled, or it rejected, which
\* loadUserData catches with a toast, the fields left as they were; then
\* initUserDropdown(); initProfileForm(); initDeleteAccountButton()
InitUserProfileResume(ok, userProfile) ==
  /\ ~MicrotaskPending
  /\ profileInit.pending > 0
  /\ profile' = IF ok THEN loadUserData(profile, userProfile) ELSE profile
  /\ profileInit' = [profileInit EXCEPT
                       !.pending = @ - 1, !.wired = @ + 1,
                       !.toast = IF ok THEN @ ELSE "Error al cargar datos del usuario"]
  /\ UNCHANGED <<sessionVars, signInVars, routerVars, taskVars, dashInit,
                 signUpVars, profileCalls, profileTimers, lastProfileUpdate,
                 httpVars, dashVars, boardVars, deleteVars, resetVars>>

\* a visitor with whatever an earlier session left in localStorage
InitGuards ==
  /\ InitSession
  /\ InitSignInForm
  /\ navs = <<HandleRouteNav(hash)>>
  /\ appView = "blank"
  /\ InitTasksIdle
  /\ InitSignUpIdle
  /\ profile = FreshProfile
  /\ profileCalls = 0
  /\ profileTimers = 0
  /\ lastProfileUpdate = NoProfileUpdate
  /\ httpCall = NoHttpCall
  /\ InitBoardIdle
  /\ profileInit = NoProfileInit
  /\ dashInit = NoDashInit
  /\ editTask = NoEditTask
  /\ deletion = NoDeletion
  /\ InitResetIdle
  /\ InitDashboardIdle

NextGuards ==
  \/ Tick
  \/ \E h \in {HashHome, HashDashboard} : DashboardNavigate(h)
  \/ \E i \in DOMAIN navs : HandleRoute(i)
  \/ \E i \in DOMAIN navs : LoadViewOk(i)
  \/ \E ok \in BOOLEAN, shown \in BOOLEAN : InitDashboardResume(ok, shown)
  \/ InitDashboard
  \/ \E o \in ProfileOutcomes : InitDashboardProfile(o)
  \/ \E i \in 1..MaxFetches : GetTasksAnswer(i)
  \/ \E i \in 1..MaxFetches, ok \in BOOLEAN : InitDashboardLoaded(i, ok)
  \/ InitUserProfile
  \/ \E ok \in BOOLEAN, p \in UserProfiles : InitUserProfileResume(ok, p)

SpecGuards == InitGuards /\ [][NextGuards]_vars

(***************************************************************************)
(* Actions of the create-task modal and the board                          *)
(***************************************************************************)
\* a click on .create-task-btn: the modal opens, the form is reset and the
\* empty date input is set to today
TaskFormOpen ==
  /\ ~taskForm.modal
  /\ taskForm' = [resetTaskForm(taskForm) EXCEPT !.modal = TRUE, !.date = Today]
  /\ UNCHANGED <<sessionVars, signInVars, routerVars, taskVars, created, board,
                 notBoard>>

\* the same click under the router's own controller: the form is reset only
RouteTaskFormOpen ==
  /\ ~taskForm.modal
  /\ taskForm' = [resetTaskForm(taskForm) EXCEPT !.modal = TRUE]
  /\ UNCHANGED <<sessionVars, signInVars, routerVars, taskVars, created, board,
                 notBoard>>

\* a click on the close button, the cancel button or the backdrop
TaskFormClose ==
  /\ taskForm.modal
  /\ taskForm' = [taskForm EXCEPT !.modal = FALSE]
  /\ UNCHANGED <<sessionVars, signInVars, routerVars, taskVars, created, board,
                 notBoard>>

\* the user edits a field of the form (no listener is attached to them)
TaskFormInput(field, value) ==
  /\ taskForm.modal
  /\ taskForm[field] # value
  /\ taskForm' = [taskForm EXCEPT ![field] = value]
  /\ UNCHANGED <<sessionVars, signInVars, routerVars, taskVars, created, board,
                 notBoard>>

\* a submit event of #createTaskForm: the listener up to its first await,
\* or to its end when it throws before calling createTask
TaskFormSubmit ==
  /\ taskForm.modal
  /\ ~taskForm.disabled
  /\ Len(created) < MaxCreates
  /\ LET r == createTaskSubmit(taskForm, getCurrentUser(localStorage["token"]))
     IN  /\ taskForm' = r.form
         /\ created' = IF r.sent
                         THEN Append(created, [args |-> r.form.args,
                                               payload |-> createTask(r.form.args),
                                               index |-> 0])
                         ELSE created
         /\ lastRequest' = IF r.sent
                             THEN LocalRequest("createTask", localStorage)
                             ELSE lastRequest
  /\ UNCHANGED <<localStorage, sessionStorage, hash, now, authResult, logout,
                 signInVars, routerVars, taskVars, board, notBoard>>

\* the server handles the POST /tasks the listener waits for: it stores the
\* payload; answered says that the response is on its way to the client
CreateTaskAnswer ==
  /\ taskForm.pc = "creating"
  /\ ~taskForm.answered
  /\ Len(serverTasks) < MaxTasks
  /\ serverTasks' = Append(serverTasks,
                           [state |-> created[Len(created)].payload.state,
                            date  |-> created[Len(created)].payload.date])
  /\ created' = [created EXCEPT ![Len(created)].index = Len(serverTasks) + 1]
  /\ taskForm' = [taskForm EXCEPT !.answered = TRUE]
  /\ UNCHANGED <<sessionVars, signInVars, routerVars, lastCreate, taskWrites,
                 lastPut, tasksView, stats, taskFetches, board, notBoard>>

\* the listener after `await createTask(taskData)`: with the response it
\* goes on to loadTasksFromBackend(), which calls getTasks(); when the
\* request or its response is lost, catch shows failed and finally
\* restores the button
CreateTaskContinue(ok, failed) ==
  /\ taskForm.pc = "creating"
  /\ ok => taskForm.answered
  /\ IF ok
       THEN /\ taskForm' = [taskForm EXCEPT !.pc = "loading", !.answered = FALSE]
            /\ lastRequest' = LocalRequest("getTasks", localStorage)
       ELSE /\ taskForm' = [createTaskFinally(taskForm) EXCEPT !.toast = failed]
            /\ UNCHANGED lastRequest
  /\ UNCHANGED <<localStorage, sessionStorage, hash, now, authResult, logout,
                 signInVars, routerVars, taskVars, created, board, notBoard>>

CreateTaskSettle(ok) ==
  CreateTaskContinue(ok, "Error al crear tarea: Failed to fetch")

\* the server answers the GET /tasks of the listener's loadTasksFromBackend()
\* with the list it holds
CreateLoadAnswer ==
  /\ taskForm.pc = "loading"
  /\ ~taskForm.answered
  /\ taskForm' = [taskForm EXCEPT !.answered = TRUE, !.list = serverTasks]
  /\ UNCHANGED <<sessionVars, signInVars, routerVars, taskVars, created, board,
                 notBoard>>

\* the listener after `await loadTasksFromBackend()`, which rendered the
\* answer or caught the failure of getTasks: the modal closes, the form is
\* reset, the success toast shows and finally restores the button
TaskFormLoaded(ok) ==
  /\ taskForm.pc = "loading"
  /\ ok => taskForm.answered
  /\ board' = IF ok THEN loadTasksRender(getTasks(taskForm.list)) ELSE board
  /\ taskForm' = [createTaskFinally(resetTaskForm(taskForm)) EXCEPT
                    !.modal = FALSE, !.toast = "Tarea creada exitosamente"]
  /\ UNCHANGED <<sessionVars, signInVars, routerVars, taskVars, created, notBoard>>

\* a submit event of #createTaskForm under the router's own controller
RouteTaskFormSubmit ==
  /\ taskForm.modal
  /\ ~taskForm.disabled
  /\ Len(created) < MaxCreates
  /\ LET r == routeCreateTaskSubmit(taskForm, getCurrentUser(localStorage["token"]))
     IN  /\ taskForm' = r.form
         /\ created' = IF r.sent
                         THEN Append(created, [args |-> r.form.args,
                                               payload |-> createTask(r.form.args),
                                               index |-> 0])
                         ELSE created
         /\ lastRequest' = IF r.sent
                             THEN LocalRequest("createTask", localStorage)
                             ELSE lastRequest
  /\ UNCHANGED <<localStorage, sessionStorage, hash, now, authResult, logout,
                 signInVars, routerVars, taskVars, board, notBoard>>

\* the router's own listener after `await createTask(taskData)`
RouteCreateTaskSettle(ok) ==
  CreateTaskContinue(ok, "Error al crear tarea")

\* the router's own listener after `await loadTasksFromBackend()`: its
\* loader groups by the status as it is and does not sort; the toasts of
\* this controller are written without the sign they start with
RouteTaskFormLoaded(ok) ==
  /\ taskForm.pc = "loading"
  /\ ok => taskForm.answered
  /\ board' = IF ok THEN routeLoadTasksRender(getTasks(taskForm.list)) ELSE board
  /\ taskForm' = [createTaskFinally(resetTaskForm(taskForm)) EXCEPT
                    !.modal = FALSE, !.toast = "Tarea creada"]
  /\ UNCHANGED <<sessionVars, signInVars, routerVars, taskVars, created, notBoard>>

NextCreate ==
  \/ TaskFormOpen
  \/ TaskFormClose
  \/ \E v \in TaskTitles : TaskFormInput("title", v)
  \/ \E v \in FrontStatuses \cup {""} : TaskFormInput("status", v)
  \/ \E v \in FormDates : TaskFormInput("date", v)
  \/ TaskFormSubmit
  \/ CreateTaskAnswer
  \/ \E ok \in BOOLEAN : CreateTaskSettle(ok)
  \/ CreateLoadAnswer
  \/ \E ok \in BOOLEAN : TaskFormLoaded(ok)

SpecCreate == InitTasks /\ [][NextCreate]_vars

\* the create-task modal as the router's own controller wires it
NextCreateRoute ==
  \/ RouteTaskFormOpen
  \/ TaskFormClose
  \/ \E v \in TaskTitles : TaskFormInput("title", v)
  \/ \E v \in FrontStatuses \cup {""} : TaskFormInput("status", v)
  \/ \E v \in FormDates : TaskFormInput("date", v)
  \/ RouteTaskFormSubmit
  \/ CreateTaskAnswer
  \/ \E ok \in BOOLEAN : RouteCreateTaskSettle(ok)
  \/ CreateLoadAnswer
  \/ \E ok \in BOOLEAN : RouteTaskFormLoaded(ok)

SpecCreateRoute == InitTasks /\ [][NextCreateRoute]_vars

(***************************************************************************)
(* The board loaded from a server that holds tasks                         *)
(***************************************************************************)
\* the due dates tasks on the server carry
BoardDates == { NoDate, [kind |-> "invalid", time |-> 0],
                [kind |-> "valid", time |-> 1], [kind |-> "valid", time |-> 2] }

BoardTasks == [state : {"Por Hacer", "Haciendo", "Hecho"}, date : BoardDates]

BoardLists == UNION { [1..n -> BoardTasks] : n \in 0..MaxBoard }

InitBoard ==
  /\ InitSignedIn
  /\ InitSignInForm
  /\ InitRouterIdle
  /\ serverTasks \in BoardLists
  /\ lastCreate = NoCreate
  /\ lastPut = NoPut
  /\ tasksView = <<>>
  /\ stats = NoStats
  /\ taskFetches = <<>>
  /\ taskWrites = <<>>
  /\ InitViewsIdle

\* loadTasksFromBackend() up to `await getTasks()`
LoadTasksFromBackend ==
  /\ Len(taskFetches) < MaxFetches
  /\ lastRequest' = LocalRequest("getTasks", localStorage)
  /\ taskFetches' = Append(taskFetches, FetchSent("loadTasksFromBackend"))
  /\ UNCHANGED <<localStorage, sessionStorage, hash, now, authResult, logout,
                 signInVars, routerVars, serverTasks, lastCreate, taskWrites, lastPut,
                 tasksView, stats, viewVars>>

\* loadTasksFromBackend() after getTasks settled: the columns are cleared and
\* filled again and the counters updated, or the failure is caught
LoadTasksSettle(i, ok) ==
  /\ i \in 1..Len(taskFetches)
  /\ taskFetches[i].caller = "loadTasksFromBackend"
  /\ ok => taskFetches[i].answered
  /\ board' = IF ok THEN loadTasksRender(getTasks(taskFetches[i].list)) ELSE board
  /\ taskFetches' = RemoveAt(taskFetches, i)
  /\ UNCHANGED <<sessionVars, signInVars, routerVars, serverTasks, lastCreate, taskWrites,
                 lastPut, tasksView, stats, taskForm, created, notBoard>>

\* loadTasksFromBackend() of the router's own controller after getTasks
\* settled
RouteLoadTasksSettle(i, ok) ==
  /\ i \in 1..Len(taskFetches)
  /\ taskFetches[i].caller = "loadTasksFromBackend"
  /\ ok => taskFetches[i].answered
  /\ board' = IF ok THEN routeLoadTasksRender(getTasks(taskFetches[i].list))
                    ELSE board
  /\ taskFetches' = RemoveAt(taskFetches, i)
  /\ UNCHANGED <<sessionVars, signInVars, routerVars, serverTasks, lastCreate, taskWrites,
                 lastPut, tasksView, stats, taskForm, created, notBoard>>

NextBoard ==
  \/ LoadTasksFromBackend
  \/ \E i \in 1..MaxFetches : GetTasksAnswer(i)
  \/ \E i \in 1..MaxFetches, ok \in BOOLEAN : LoadTasksSettle(i, ok)

SpecBoard == InitBoard /\ [][NextBoard]_vars

NextBoardRoute ==
  \/ LoadTasksFromBackend
  \/ \E i \in 1..MaxFetches : GetTasksAnswer(i)
  \/ \E i \in 1..MaxFetches, ok \in BOOLEAN : RouteLoadTasksSettle(i, ok)

SpecBoardRoute == InitBoard /\ [][NextBoardRoute]_vars

(***************************************************************************)
(* Actions of the delete confirmation modal                                *)
(***************************************************************************)
\* the dashboard of a signed-in user with its cards rendered
InitDelete ==
  /\ InitSignedIn
  /\ InitSignInForm
  /\ InitRouterIdle
  /\ InitTasksIdle
  /\ InitOtherFormsIdle
  /\ InitDashboardIdle
  /\ deletion = renderCards([NoDeletion EXCEPT !.server = CardIds], CardIds)
  /\ InitResetIdle

\* a click on the delete option of a card's menu; a modal covers the board
\* while it is shown
ClickDeleteOption(id) ==
  /\ deletion.cards[id].present
  /\ ~deletion.display /\ ~editTask.display
  /\ deletion' = [handleDeleteTask(deletion, id) EXCEPT !.click = "delete-option"]
  /\ UNCHANGED <<sessionVars, signInVars, routerVars, taskVars, editTask, notDelete>>

\* a click on the close button, the cancel button or the backdrop
DeleteModalDismiss(control) ==
  /\ deletion.display
  /\ deletion' = [clearPendingDelete([deletion EXCEPT !.display = FALSE],
                                     editTask.taskId)
                    EXCEPT !.click = control]
  /\ UNCHANGED <<sessionVars, signInVars, routerVars, taskVars, editTask, notDelete>>

\* a click on the confirm button: the listener up to its first await
DeleteModalConfirm ==
  /\ deletion.display
  /\ Len(deletion.calls) < MaxDeletes
  /\ deletion' = [confirmDelete(deletion, editTask.taskId)
                    EXCEPT !.click = "confirmDeleteTaskBtn"]
  /\ lastRequest' = IF Len(deletion'.calls) > Len(deletion.calls)
                      THEN LocalRequest("deleteTask", localStorage)
                      ELSE lastRequest
  /\ UNCHANGED <<localStorage, sessionStorage, hash, now, authResult, logout,
                 signInVars, routerVars, taskVars, editTask, notDelete>>

\* the server handles the request a call waits for: DELETE /tasks/:id
\* removes the task, GET /tasks answers with the tasks it holds
DeleteCallAnswer(i) ==
  /\ i \in 1..Len(deletion.calls)
  /\ ~deletion.calls[i].answered
  /\ deletion' = IF deletion.calls[i].pc = "deleting"
                   THEN [deletion EXCEPT !.calls[i].answered = TRUE,
                                         !.server = @ \ {deletion.calls[i].id}]
                   ELSE [deletion EXCEPT !.calls[i].answered = TRUE,
                                         !.calls[i].list = deletion.server]
  /\ UNCHANGED <<sessionVars, signInVars, routerVars, taskVars, editTask, notDelete>>

\* executeDeleteTask after `await deleteTask(taskId)`: on success the toast
\* and loadTasksFromBackend() up to its getTasks(); on failure the catch
\* block restores the element the call holds
DeleteTaskSettle(i, ok) ==
  /\ i \in 1..Len(deletion.calls)
  /\ deletion.calls[i].pc = "deleting"
  /\ ok => deletion.calls[i].answered
  /\ IF ok
       THEN /\ deletion' = [deletion EXCEPT !.calls[i].pc = "loading",
                                            !.calls[i].answered = FALSE,
                                            !.toast = <<"Tarea eliminada">>]
            /\ lastRequest' = LocalRequest("getTasks", localStorage)
       ELSE /\ deletion' = executeDeleteTaskCatch(deletion, i)
            /\ UNCHANGED lastRequest
  /\ UNCHANGED <<localStorage, sessionStorage, hash, now, authResult, logout,
                 signInVars, routerVars, taskVars, editTask, notDelete>>

\* executeDeleteTask after `await loadTasksFromBackend()`, which rendered
\* the answer or caught the failure of getTasks and showed a toast
DeleteLoadSettle(i, ok) ==
  /\ i \in 1..Len(deletion.calls)
  /\ deletion.calls[i].pc = "loading"
  /\ ok => deletion.calls[i].answered
  /\ deletion' = IF ok
                   THEN renderCards([deletion EXCEPT !.calls = RemoveAt(@, i)],
                                    deletion.calls[i].list)
                   ELSE [deletion EXCEPT !.calls = RemoveAt(@, i),
                                         !.toast = ToastLoadFailed]
  /\ UNCHANGED <<sessionVars, signInVars, routerVars, taskVars, editTask, notDelete>>

\* a click on the edit option of a card's menu: the listener of
\* initTaskActions and handleEditTask; a card that is being deleted takes no
\* clicks (pointer-events: none)
ClickEditOption(id) ==
  /\ deletion.cards[id].present
  /\ deletion.cards[id].deleting # "true"
  /\ ~deletion.display /\ ~editTask.display
  /\ editTask.opens < MaxEdits
  /\ deletion' = handleEditTask(deletion, id)
  /\ editTask' = IF deletion.cards[id].editing = "true"
                   THEN editTask
                   ELSE openEditModal(editTask, id)
  /\ UNCHANGED <<sessionVars, signInVars, routerVars, taskVars, notDelete>>

\* the timer of handleEditTask fires: card.dataset.editing = 'false' on the
\* card element the callback holds
EditTimerFire(id) ==
  /\ deletion.cards[id].editing = "true"
  /\ deletion' = [deletion EXCEPT !.cards[id].editing = "false"]
  /\ UNCHANGED <<sessionVars, signInVars, routerVars, taskVars, editTask, notDelete>>

\* a click on the close button, the cancel button (while it is enabled) or
\* the backdrop of the edit modal
EditModalDismiss(control) ==
  /\ editTask.display
  /\ control = "cancelEditTaskBtn" => ~editTask.disabled
  /\ editTask' = [editTask EXCEPT !.display = FALSE]
  /\ UNCHANGED <<sessionVars, signInVars, routerVars, taskVars, deletion, notDelete>>

\* a submit event of #editTaskForm with the title field holding title: the
\* listener up to its first await
EditFormSubmit(title) ==
  /\ editTask.display
  /\ LET r == editTaskSubmit(editTask, title) IN
     /\ editTask' = r.form
     /\ deletion' = IF r.toast = <<>> THEN deletion
                                      ELSE [deletion EXCEPT !.toast = r.toast]
     /\ lastRequest' = IF r.sent THEN LocalRequest("updateTask", localStorage)
                                 ELSE lastRequest
  /\ UNCHANGED <<localStorage, sessionStorage, hash, now, authResult, logout,
                 signInVars, routerVars, taskVars, notDelete>>

\* the server handles the request the submit listener waits for: PUT
\* /tasks/:id of a task it holds, or GET /tasks
EditCallAnswer ==
  /\ editTask.pc \in {"updating", "loading"}
  /\ ~editTask.answered
  /\ editTask.pc = "updating" => editTask.put \in deletion.server
  /\ editTask' = IF editTask.pc = "updating"
                   THEN [editTask EXCEPT !.answered = TRUE]
                   ELSE [editTask EXCEPT !.answered = TRUE, !.list = deletion.server]
  /\ UNCHANGED <<sessionVars, signInVars, routerVars, taskVars, deletion, notDelete>>

\* the submit listener after `await updateTask(...)`: on success
\* loadTasksFromBackend() up to its getTasks(); on failure the toast of the
\* catch block, then finally enables the buttons
EditUpdateSettle(ok) ==
  /\ editTask.pc = "updating"
  /\ ok => editTask.answered
  /\ IF ok
       THEN /\ editTask' = [editTask EXCEPT !.pc = "loading", !.answered = FALSE]
            /\ lastRequest' = LocalRequest("getTasks", localStorage)
            /\ UNCHANGED deletion
       ELSE /\ editTask' = editTaskFinally(editTask)
            /\ deletion' = [deletion EXCEPT !.toast = ToastEditFailed("rejected")]
            /\ UNCHANGED lastRequest
  /\ UNCHANGED <<localStorage, sessionStorage, hash, now, authResult, logout,
                 signInVars, routerVars, taskVars, notDelete>>

\* the submit listener after `await loadTasksFromBackend()`, which rendered
\* the answer or caught the failure of getTasks: the modal is hidden, the
\* success toast shows and finally enables the buttons
EditLoadSettle(ok) ==
  /\ editTask.pc = "loading"
  /\ ok => editTask.answered
  /\ deletion' = [(IF ok THEN renderCards(deletion, editTask.list) ELSE deletion)
                    EXCEPT !.toast = <<"Tarea actualizada exitosamente">>]
  /\ editTask' = [editTaskFinally(editTask) EXCEPT !.display = FALSE]
  /\ UNCHANGED <<sessionVars, signInVars, routerVars, taskVars, notDelete>>

NextDelete ==
  \/ \E id \in CardIds : ClickDeleteOption(id)
  \/ \E c \in DismissControls : DeleteModalDismiss(c)
  \/ DeleteModalConfirm
  \/ \E i \in 1..MaxDeletes : DeleteCallAnswer(i)
  \/ \E i \in 1..MaxDeletes, ok \in BOOLEAN : DeleteTaskSettle(i, ok)
  \/ \E i \in 1..MaxDeletes, ok \in BOOLEAN : DeleteLoadSettle(i, ok)
  \/ \E id \in CardIds : ClickEditOption(id)
  \/ \E id \in CardIds : EditTimerFire(id)
  \/ \E c \in EditDismissControls : EditModalDismiss(c)
  \/ \E title \in EditTitles : EditFormSubmit(title)
  \/ EditCallAnswer
  \/ \E ok \in BOOLEAN : EditUpdateSettle(ok)
  \/ \E ok \in BOOLEAN : EditLoadSettle(ok)

SpecDelete == InitDelete /\ [][NextDelete]_vars

(***************************************************************************)
(* Actions of the reset-password view                                      *)
(***************************************************************************)
\* initResetPassword(token) is called on the document
InitResetPassword(token) ==
  /\ token = "" \/ Len(resetForm.listeners) < MaxInits
  /\ LET r == initResetPassword(resetForm, token) IN
     /\ resetForm' = r.form
     /\ hash' = IF r.redirect THEN HashSignIn ELSE hash
     /\ navs' = IF r.redirect THEN hashchange(navs, HashSignIn) ELSE navs
  /\ UNCHANGED <<localStorage, sessionStorage, now, lastRequest, authResult,
                 logout, signInVars, appView, taskVars, notReset, resetCalls>>

\* the user changes a field: every validatePasswords listener runs
ResetInput(field, value) ==
  /\ resetForm.present
  /\ resetForm[field] # value
  /\ resetForm' = IF resetForm.listeners = <<>>
                    THEN [resetForm EXCEPT ![field] = value]
                    ELSE validatePasswords([resetForm EXCEPT ![field] = value])
  /\ UNCHANGED <<sessionVars, signInVars, routerVars, taskVars, notReset,
                 resetCalls>>

\* a submit event, which the browser dispatches only through an enabled
\* submit button: the listeners run up to `await resetPassword(...)`, which
\* sends POST /users/auth/reset-password/<token>
ResetSubmit ==
  /\ resetForm.present
  /\ resetForm.listeners # <<>>
  /\ ~resetForm.disabled
  /\ Len(resetCalls) + resetForm.timers + Len(resetForm.listeners) <= MaxResets
  /\ LET r == resetSubmit(resetForm, resetForm.listeners) IN
     /\ resetForm' = r.form
     /\ resetCalls' = resetCalls \o r.calls
  /\ UNCHANGED <<sessionVars, signInVars, routerVars, taskVars, notReset>>

\* resetPassword resolved: the toast, and the timer of the redirect starts
ResetResolve(i) ==
  /\ i \in 1..Len(resetCalls)
  /\ resetForm' = [resetForm EXCEPT !.toast = ToastResetDone, !.timers = @ + 1]
  /\ resetCalls' = RemoveAt(resetCalls, i)
  /\ UNCHANGED <<sessionVars, signInVars, routerVars, taskVars, notReset>>

\* resetPassword rejected with error.message = msg: the toast, and the
\* button is enabled with its label
ResetReject(i, msg) ==
  /\ i \in 1..Len(resetCalls)
  /\ resetForm' = [resetForm EXCEPT !.toast = ToastResetFailed(msg),
                                    !.disabled = FALSE, !.text = LabelUpdate]
  /\ resetCalls' = RemoveAt(resetCalls, i)
  /\ UNCHANGED <<sessionVars, signInVars, routerVars, taskVars, notReset>>

\* setTimeout(() => { window.location.hash = '#/sign-in' }, 2000)
ResetTimerFire ==
  /\ resetForm.timers > 0
  /\ resetForm' = [resetForm EXCEPT !.timers = @ - 1]
  /\ hash' = HashSignIn
  /\ navs' = hashchange(navs, HashSignIn)
  /\ UNCHANGED <<localStorage, sessionStorage, now, lastRequest, authResult,
                 logout, signInVars, appView, taskVars, notReset, resetCalls>>

ResetPasswords ==
  { <<"A", "b", "c", "d", "1", "2", "3", "#">>,
    <<"A", "b", "c", "d", "1", "2", "3", "4">>,
    <<" ">> }

\* a visitor on the reset view, reached through the link of the e-mail
InitReset ==
  /\ InitSession
  /\ InitSignInForm
  /\ InitRouterIdle
  /\ InitTasksIdle
  /\ InitOtherFormsIdle
  /\ deletion = NoDeletion
  /\ InitDashboardIdle
  /\ resetForm \in { FreshReset(p, d) : p \in BOOLEAN, d \in BOOLEAN }
  /\ resetCalls = <<>>

NextReset ==
  \/ \E t \in ResetTokens : InitResetPassword(t)
  \/ \E v \in ResetPasswords : ResetInput("password", v)
  \/ \E v \in ResetPasswords : ResetInput("confirm", v)
  \/ ResetSubmit
  \/ \E i \in 1..MaxResets : ResetResolve(i)
  \/ \E i \in 1..MaxResets, m \in ResetErrors : ResetReject(i, m)
  \/ ResetTimerFire

SpecReset == InitReset /\ [][NextReset]_vars

(***************************************************************************)
(* Properties of the session                                               *)
(***************************************************************************)
Decodes(token) == token.segs >= 2 /\ token.b64 /\ token.json = "obj"

\* C1 (as stated): isAuthenticated() returns false without a token, false when
\* the decoded exp claim is not later than the current time, and true for
\* every other stored token.
C1_TrueForEveryOtherToken ==
  authResult.called =>
    authResult.result =
      ~( \/ authResult.token = Absent
         \/ /\ Decodes(authResult.token)
            /\ authResult.token.exp # NoExp
            /\ authResult.token.exp <= authResult.now )

\* C1 (amended): isAuthenticated() returns true exactly when the stored token
\* decodes to a JSON object whose exp claim is later than the current time;
\* it returns false for a missing token, an exp claim that is not later than
\* now, a token that cannot be decoded and a payload without an exp claim.
C1_TrueIffDecodedExpLater ==
  authResult.called =>
    authResult.result =
      ( /\ authResult.token # Absent
        /\ Decodes(authResult.token)
        /\ authResult.token.exp # NoExp
        /\ authResult.token.exp > authResult.now )

C1_Witness ==
  /\ authResult.called
  /\ authResult.token # Absent
  /\ ~Decodes(authResult.token)
  /\ ~authResult.result

\* C3: with a token stored in localStorage by login, every authenticated API
\* request carries Authorization: Bearer <that token>, and logoutUser called
\* by a logged-in user issues the remote logout request.
C3_BearerIsLoginToken ==
  /\ (lastRequest.op # "none" /\ lastRequest.stored # Absent)
        => lastRequest.auth = Bearer(lastRequest.stored)
  /\ (logout.pc = "returned" /\ logout.loggedIn) => logout.outcome # "skipped"

\* C4: when logoutUser() has completed, whether the remote call succeeded,
\* failed or was skipped, token, userId and userEmail are absent from both
\* storages, userName and userFirstName are absent from localStorage, and
\* location.hash is #/sign-in.
C4_LogoutClearsSession ==
  logout.pc = "returned" =>
    /\ \A k \in {"token", "userId", "userEmail"} :
         /\ localStorage[k] = EmptyStore[k]
         /\ sessionStorage[k] = EmptyStore[k]
    /\ localStorage["userName"] = NoValue
    /\ localStorage["userFirstName"] = NoValue
    /\ hash = HashSignIn

C4_Witness ==
  /\ logout.pc = "returned"
  /\ logout.outcome = "failed"
  /\ logout.loggedIn

\* C5: once isAuthenticated() has found the stored token expired, that token
\* is no longer in browser storage.
C5_ExpiredTokenDestroyed ==
  ( /\ authResult.called
    /\ Decodes(authResult.token)
    /\ authResult.token.exp # NoExp
    /\ authResult.token.exp <= authResult.now )
  => /\ localStorage["token"] # authResult.token
     /\ sessionStorage["token"] # authResult.token

\* C6: when the stored token cannot be decoded, isAuthenticated() returns
\* false and the token is gone from the storage it was read from.
C6_UndecodableTokenCleared ==
  (authResult.called /\ authResult.caught)
  => /\ ~authResult.result
     /\ localStorage["token"] # authResult.token

\* C9 (as stated): a handler that awaits a network call finishes before any
\* other handler touches the DOM or browser storage.
C9_RunsToCompletion ==
  [][ loginCalls # <<>> =>
        \/ Len(loginCalls') < Len(loginCalls)
        \/ UNCHANGED <<signIn, localStorage, sessionStorage, hash>> ]_vars

\* C9 (amended): a handler runs uninterrupted only up to its next await.  The
\* sign-in submit handler validates the fields, disables the button, sets the
\* busy label and calls loginUser with the trimmed, validated credentials in
\* one step; while the call is awaited other handlers run.
C9_SegmentRunsToAwait ==
  [][ Len(loginCalls') > Len(loginCalls) =>
        LET call == loginCalls'[Len(loginCalls')] IN
        /\ signIn'.disabled
        /\ signIn'.text = LabelBusy
        /\ call.email = trim(signIn.email)
        /\ call.password = trim(signIn.password)
        /\ emailRegexTest(call.email)
        /\ call.password # <<>>
        /\ call.originalText = signIn.text ]_vars

C9_Witness ==
  /\ Len(loginCalls) = 2
  /\ ~signIn.disabled

(***************************************************************************)
(* Properties of the sign-up form                                          *)
(***************************************************************************)
SpecialChars == RegexSpecialChars \cup RequirementSpecialChars

\* at least 8 characters with an uppercase letter, a lowercase letter, a
\* digit and a special character
StrongPassword(p) ==
  /\ Len(p) >= 8
  /\ Has(p, UpperChars)
  /\ Has(p, LowerChars)
  /\ Has(p, DigitChars)
  /\ Has(p, SpecialChars)

\* C11: the sign-up submit button is never enabled, and registerUser is never
\* called, for a password shorter than 8 characters or without an uppercase
\* letter, a lowercase letter, a digit or a special character.
C11_WeakPasswordNeverSubmitted ==
  /\ (signUp.present /\ signUp.listeners > 0 /\ ~signUp.disabled)
       => StrongPassword(signUp.password)
  /\ lastRegister.called => StrongPassword(lastRegister.password)

C11_Witness ==
  /\ signUp.listeners > 0
  /\ signUp.disabled
  /\ registerCalls = <<>>
  /\ ~StrongPassword(signUp.password)
  /\ signUp.confirm = signUp.password
  /\ emailRegexTest(signUp.email)
  /\ signUp.age = <<"2", "0">>
  /\ lastRegister.called

\* the fields of the end-to-end scenario: a@b.com, Abcd123!, Abcd123!, 20
Scenario ==
  /\ signUp.present
  /\ signUp.listeners > 0
  /\ signUp.email = <<"a", "@", "b", ".", "c", "o", "m">>
  /\ signUp.password = <<"A", "b", "c", "d", "1", "2", "3", "!">>
  /\ signUp.confirm = <<"A", "b", "c", "d", "1", "2", "3", "!">>
  /\ signUp.age = <<"2", "0">>

\* C13: with the sign-up fields set to a@b.com, Abcd123!, Abcd123! and 20 the
\* submit button is enabled (until a submit disables it for the time of the
\* request); once registerUser has succeeded, location.hash eventually
\* becomes #/sign-in.
C13_ScenarioEnablesAndRedirects ==
  /\ [](Scenario /\ (\A k \in 1..Len(registerCalls) : ~registerCalls[k].attached)
          => ~signUp.disabled)
  /\ (signUpTimers > 0) ~> (hash = HashSignIn)

C13_Witness ==
  /\ hash = HashSignIn
  /\ lastRegister.called
  /\ lastRegister.email = <<"a", "@", "b", ".", "c", "o", "m">>
  /\ lastRegister.password = <<"A", "b", "c", "d", "1", "2", "3", "!">>
  /\ lastRegister.body.age = Num(20)
  /\ localStorage["userName"] = "Ana Paz"

\* C12: registerUser and updateUserProfile are called only with an age of at
\* least 13, also when the profile fields are edited between the form submit
\* and the click on the confirmation button.
C12_NoRequestBelowThirteen ==
  /\ lastRegister.called => NumGe(lastRegister.body.age, 13)
  /\ lastProfileUpdate.called => NumGe(lastProfileUpdate.body.age, 13)

(***************************************************************************)
(* Properties of the HTTP client wrapper                                   *)
(***************************************************************************)
\* the body as JSON: null when the response is not JSON
ParsedBody(res) == IF res.isJSON /\ res.parses THEN res.payload ELSE JsonNull

Is2xx(res) == res.status \in 200..299

\* C14 (as stated): a non-2xx response makes request() throw an Error whose
\* message is the payload's message field if present, else its error field if
\* present, else 'HTTP <status>'; a 2xx response makes it return the parsed
\* payload (null when the body is not JSON) without throwing.
C14_MessageIfPresent ==
  (httpCall.called /\ ~httpCall.network) =>
    LET res == httpCall.response
        p   == ParsedBody(res)
    IN  IF Is2xx(res)
          THEN ~httpCall.outcome.throws /\ httpCall.outcome.value = p
          ELSE /\ httpCall.outcome.throws
               /\ httpCall.outcome.message =
                    IF p.message # Undefined THEN p.message
                    ELSE IF p.error # Undefined THEN p.error
                    ELSE "HTTP " \o ToString(res.status)

\* C14 (amended): as stated, with "present" read as "present and not empty":
\* an empty message falls through to the error field, and an empty error
\* field to 'HTTP <status>'.
C14_MessageIfNonEmpty ==
  (httpCall.called /\ ~httpCall.network) =>
    LET res == httpCall.response
        p   == ParsedBody(res)
    IN  IF Is2xx(res)
          THEN ~httpCall.outcome.throws /\ httpCall.outcome.value = p
          ELSE /\ httpCall.outcome.throws
               /\ httpCall.outcome.message =
                    IF p.message \notin {Undefined, ""} THEN p.message
                    ELSE IF p.error \notin {Undefined, ""} THEN p.error
                    ELSE "HTTP " \o ToString(res.status)

C14_Witness ==
  /\ httpCall.called
  /\ httpCall.response.status = 401
  /\ httpCall.response.isJSON
  /\ httpCall.response.parses
  /\ httpCall.response.payload.message = ""
  /\ httpCall.outcome.throws
  /\ httpCall.outcome.message = "Bad Request"

\* the rules of validateForm on the trimmed field values: e-mail shape,
\* password strength, confirmation equal to the password, age a whole
\* number of at least 13
FieldsPass(f) ==
  /\ emailRegexTest(trim(f.email))
  /\ passwordRegexTest(trim(f.password))
  /\ trim(f.confirm) = trim(f.password)
  /\ DigitsTest(trim(f.age))
  /\ DigitsValue(trim(f.age)) >= 13

SignUpFields == {"email", "password", "confirm", "age"}

\* C17: after an input event on the e-mail, password, confirmation or age
\* field of the sign-up form has been handled, the submit button is enabled
\* exactly when the four fields pass validateForm's rules.
C17_ButtonFollowsFields ==
  [][ (signUp.present /\ \E x \in SignUpFields : signUp'[x] # signUp[x])
        => (~signUp'.disabled <=> FieldsPass(signUp')) ]_vars

C17_Witness ==
  /\ signUp.listeners > 0
  /\ ~signUp.disabled
  /\ signUp.password = <<"A", "b", "c", "d", "1", "2", "3", "!", " ">>
  /\ signUp.confirm = <<"A", "b", "c", "d", "1", "2", "3", "!">>
  /\ signUp.age = <<" ", "1", "3">>
  /\ \E k \in 1..Len(registerCalls) : registerCalls[k].attached

\* C18 (sign-in): when a loginUser call has been rejected and no submit
\* handler of the form is still awaiting, the submit button carries its
\* original label and is enabled if the field values are valid.
C18_FailedLoginRestoresButton ==
  [][ ( /\ signIn.wired
        /\ Len(loginCalls') < Len(loginCalls)
        /\ redirectTimers' = redirectTimers
        /\ \A k \in 1..Len(loginCalls') : ~loginCalls'[k].attached )
      => /\ signIn'.text = LabelSignIn
         /\ (~validateForm(signIn').disabled => ~signIn'.disabled) ]_vars

(***************************************************************************)
(* Properties of the initializers                                          *)
(***************************************************************************)
\* C15: initSignup or initSignin called again on a form that carries the
\* marker data-tudu-init="true" attaches no further listeners, and a submit
\* event starts at most one registerUser or loginUser call, however often the
\* initializer ran.
C15_ReinitAttachesNothing ==
  [][ /\ (signUp.marker /\ signUp'.inits > signUp.inits)
           => signUp'.listeners = signUp.listeners
      /\ (signIn.marker /\ signIn'.inits > signIn.inits)
           => signIn'.listeners = signIn.listeners
      /\ Len(registerCalls') <= Len(registerCalls) + 1
      /\ Len(loginCalls') <= Len(loginCalls) + 1 ]_vars

C15_Witness ==
  /\ signIn.inits >= 2
  /\ signIn.listeners = 1
  /\ \E k \in 1..Len(loginCalls) : loginCalls[k].attached
  /\ registerCalls # <<>>

(***************************************************************************)
(* Properties of the task access module                                    *)
(***************************************************************************)
\* C2: a canonical frontend status sent through mapStatus and read back
\* through mapState is the same status again.
C2_StatusRoundTrip ==
  (lastCreate.index > 0 /\ Len(tasksView) >= lastCreate.index)
    => tasksView[lastCreate.index].status = lastCreate.status

CountState(list, S) == Cardinality({k \in 1..Len(list) : list[k].state \in S})

\* C10: for a list of N tasks returned by the server, getTaskStats returns
\* total = N = pending + progress + completed, and each count is the number
\* of tasks of the list in that status.
C10_StatsMatchList ==
  (stats.called /\ ~stats.failed) =>
    LET c == stats.counts
        N == Len(stats.list)
    IN  /\ c.total = N
        /\ c.pending + c.progress + c.completed = N
        /\ c.pending = CountState(stats.list, {"Por Hacer", "Por hacer"})
        /\ c.progress = CountState(stats.list, {"Haciendo"})
        /\ c.completed = CountState(stats.list, {"Hecho"})

C10_Witness ==
  /\ stats.called
  /\ ~stats.failed
  /\ stats.counts.pending >= 1
  /\ stats.counts.completed >= 1

(***************************************************************************)
(* Properties of the router                                                *)
(***************************************************************************)
\* C7: on the initial render and on every hash change, a hash whose path is
\* not a known route makes the router request the home view; when the
\* fragment arrives it is the home view that is loaded and initHome that is
\* invoked, and no other view's initializer runs for that navigation.
C7_UnknownHashLoadsHome ==
  \A k \in 1..Len(navs) :
    (navs[k].stage # "queued" /\ ~KnownPath(navs[k].hash)) =>
      /\ navs[k].route = "home"
      /\ \A j \in 1..Len(navs[k].inits) : navs[k].inits[j].view = "home"
      /\ navs[k].stage = "done" =>
           /\ navs[k].loaded = "home"
           /\ navs[k].inits = <<[view |-> "home", arg |-> <<>>]>>

C7_Witness ==
  \E k \in 1..Len(navs) :
    /\ navs[k].hash = HashUnknown
    /\ navs[k].stage = "done"
    /\ navs[k].inits = <<[view |-> "home", arg |-> <<>>]>>

\* C8: navigating to #/reset-password/<token> loads the reset-password view
\* and calls its initializer with exactly <token>.
C8_ResetPasswordGetsToken ==
  \A k \in 1..Len(navs) :
    (navs[k].stage = "done" /\ IsResetHash(navs[k].hash)) =>
      /\ navs[k].loaded = "reset-password"
      /\ navs[k].inits =
           <<[view |-> "reset-password", arg |-> <<navs[k].hash[5]>>]>>

(***************************************************************************)
(* Properties of the dashboard                                             *)
(***************************************************************************)
\* C16: however often #/dashboard has been entered, one click on a card's
\* delete or edit button or on the logout option starts its service call
\* (deleteTask, updateTask, logoutUser) at most once.
C16_ClickActsAtMostOnce == lastClick.calls <= 1

\* the fetch of navigation i failed: nothing was injected for it
FetchFailed(nav) == nav.stage = "failed" /\ nav.loaded = ""

\* C19: when the fetch of a view's fragment fails the router shows the inline
\* error message in place of the content and calls no initializer for that
\* navigation; afterwards it does nothing more for that navigation (no
\* second fetch, no initializer): only a new hash change starts a fetch.
C19_FetchFailureShowsError ==
  [][ \A i \in 1..Len(navs) :
        /\ (navs[i].stage = "fetching" /\ FetchFailed(navs'[i]))
             => (appView' = "error" /\ navs'[i].inits = <<>>)
        /\ FetchFailed(navs[i]) => navs'[i] = navs[i] ]_vars

C19_Witness ==
  \E i \in 1..Len(navs) :
    /\ FetchFailed(navs[i])
    /\ i < Len(navs)
    /\ navs[Len(navs)].stage = "fetching"
    /\ appView = "error"

\* C20: the PUT /tasks/<taskId> request that updateTaskStatus(taskId,
\* newStatus) sends through updateTask carries newStatus as the new status
\* of the task (as the status itself or as the backend state it maps to).
C20_PutCarriesNewStatus ==
  lastPut.called =>
    \E pair \in lastPut.body :
      /\ pair[1] \in {"state", "status"}
      /\ pair[2] \in {lastPut.newStatus, mapStatus(lastPut.newStatus)}

(***************************************************************************)
(* Properties of the create-task modal and the board                       *)
(***************************************************************************)
\* C21: createTask is never called with a title that is empty after
\* trimming; a submit of the create-task form with such a title sends no
\* request and shows an error.
C21_EmptyTitleNeverSent ==
  \A k \in 1..Len(created) : created[k].args.title # <<>>

\* the cards of the board that show task id, as <<column, position>>
CardsOf(id) ==
  { p \in { <<c, i>> : c \in {"pending", "progress", "completed"}, i \in 1..MaxBoard + 1 } :
      /\ p[2] <= Len(board[p[1]].cards)
      /\ board[p[1]].cards[p[2]].id = id }

\* C23: after loadTasksFromBackend rendered a list of N tasks, every task
\* is a card in exactly one column, the three counters sum to N and each
\* equals the number of cards of its column, and a column shows the
\* placeholder 'No hay tareas aun' exactly when it has no card.
C23_EveryTaskInOneColumn ==
  board.loaded =>
    /\ \A k \in 1..Len(board.rendered) :
         Cardinality(CardsOf(board.rendered[k].id)) = 1
    /\ board.pending.count + board.progress.count + board.completed.count
         = Len(board.rendered)
    /\ \A c \in {"pending", "progress", "completed"} :
         /\ board[c].count = Len(board[c].cards)
         /\ board[c].empty <=> (Len(board[c].cards) = 0)

\* the rank of a due date in the order of a column
ValidDate(t) == t.dueDate.kind = "valid"

\* C24: within each column the cards are ordered by due date ascending,
\* and tasks with no due date or an unparseable one come after all tasks
\* with a valid due date.
C24_ColumnsSortedByDate ==
  board.loaded =>
    \A c \in {"pending", "progress", "completed"} :
      \A i, j \in 1..Len(board[c].cards) :
        (i < j /\ ValidDate(board[c].cards[j]))
          => /\ ValidDate(board[c].cards[i])
             /\ board[c].cards[i].dueDate.time <= board[c].cards[j].dueDate.time

C24_Witness ==
  /\ board.loaded
  /\ \E c \in {"pending", "progress", "completed"} :
       /\ Len(board[c].cards) = 3
       /\ board[c].cards # tasksByStatus(board.rendered, c)
       /\ board[c].cards[1].dueDate.time = 1
       /\ board[c].cards[2].dueDate.kind = "invalid"
       /\ board[c].cards[3].dueDate.kind = "none"

\* C25: when the backend stores the state of a task unchanged, a task
\* created through createTask with status pending, progress or completed
\* is rendered in the column of that status on the next load.
C25_CreatedTaskInItsColumn ==
  \A k \in 1..Len(created) :
    ( /\ created[k].args.status \in FrontStatuses
      /\ created[k].index > 0
      /\ board.loaded
      /\ Len(board.rendered) >= created[k].index )
      => \E i \in 1..Len(board[created[k].args.status].cards) :
           board[created[k].args.status].cards[i].id = created[k].index

C25_Witness ==
  /\ board.loaded
  /\ Len(created) = 2
  /\ Len(board.rendered) = 2
  /\ created[1].args.status = "completed" /\ created[1].index = 1
  /\ created[2].args.status = "progress" /\ created[2].index = 2
  /\ board.completed.cards = <<board.rendered[1]>>
  /\ board.progress.cards = <<board.rendered[2]>>

(***************************************************************************)
(* Properties of the guarded views                                         *)
(***************************************************************************)
\* C22: when isAuthenticated() is false, initDashboard and initUserProfile
\* issue no API request: they set the hash to #/sign-in and return without
\* wiring anything of the view.
C22_GuardsSendNothing ==
  [][ ~isAuthenticated(localStorage["token"], now).result =>
        /\ (dashboard'.loads # dashboard.loads /\ dashboard'.present) =>
              /\ lastRequest' = lastRequest
              /\ hash' = HashSignIn
              /\ dashboard'.pending = dashboard.pending
              /\ dashboard'.documentClick = dashboard.documentClick
              /\ dashboard'.logoutOption = 0
              /\ ~dashboard'.cards
        /\ dashInit'.calls # dashInit.calls =>
              /\ lastRequest' = lastRequest
              /\ hash' = HashSignIn
              /\ dashInit'.profile = dashInit.profile
              /\ dashInit'.wired = dashInit.wired
              /\ taskFetches' = taskFetches
              /\ board' = board
        /\ profileInit'.calls # profileInit.calls =>
              /\ lastRequest' = lastRequest
              /\ hash' = HashSignIn
              /\ profileInit'.pending = profileInit.pending
              /\ profileInit'.wired = profileInit.wired
              /\ profile' = profile ]_vars

\* both guards have turned a visitor away after the token expired, and
\* before that each view was set up for the signed-in user
C22_Witness ==
  /\ authResult.called /\ ~authResult.result
  /\ hash = HashSignIn
  /\ profileInit.calls = 2 /\ profileInit.wired = 1 /\ profileInit.pending = 0
  /\ profile.firstName = StoredProfile.firstName
  /\ dashInit.calls = 2 /\ dashInit.wired = 1 /\ dashInit.profile = 0
  /\ dashboard.present /\ dashboard.loads >= 2 /\ dashboard.pending = 0
  /\ lastRequest # NoRequest

(***************************************************************************)
(* Properties of the router under overlapping navigations                  *)
(***************************************************************************)
\* C26: when navigations overlap, once every fetch has completed the view
\* shown is the view of the latest hash: the late response of an older
\* navigation does not overwrite a newer view.
C26_LatestViewShown ==
  ( /\ navs # <<>>
    /\ \A k \in 1..Len(navs) : navs[k].stage = "done" )
    => appView = RouteOf(hash)

(***************************************************************************)
(* Properties of the sign-in form while a login is pending                 *)
(***************************************************************************)
\* C27: at most one login request of the sign-in form is in flight at any
\* time: while a loginUser call is pending, no input events and submits
\* start a second one.
C27_OneLoginInFlight ==
  Cardinality({ k \in 1..Len(loginCalls) : loginCalls[k].attached }) <= 1

(***************************************************************************)
(* Properties of the delete confirmation modal                             *)
(***************************************************************************)
\* C28: deleteTask(id) is called only when the user confirms in the delete
\* modal while id is the pending one; cancelling or closing the modal sends
\* no delete request and clears the pending id; when a delete fails, the
\* deleting flag of the card is reset to 'false'.
C28_DeleteOnlyOnConfirm ==
  [][ /\ Len(deletion'.calls) > Len(deletion.calls) =>
           /\ deletion.display
           /\ deletion.taskCard # 0
           /\ deletion'.calls = Append(deletion.calls,
                                       deletion'.calls[Len(deletion'.calls)])
           /\ deletion.taskCard = deletion'.calls[Len(deletion'.calls)].id
           /\ deletion'.click = "confirmDeleteTaskBtn"
      /\ ( lastRequest' # lastRequest /\ lastRequest'.op = "deleteTask" ) =>
           Len(deletion'.calls) > Len(deletion.calls)
      /\ ( /\ deletion.display /\ ~deletion'.display
           /\ deletion'.click \in DismissControls ) =>
           /\ deletion'.calls = deletion.calls
           /\ lastRequest' = lastRequest
           /\ deletion'.taskCard = 0
      /\ \A i \in 1..Len(deletion.calls) :
           ( /\ deletion.calls[i].pc = "deleting"
             /\ deletion'.calls = RemoveAt(deletion.calls, i) ) =>
             LET call == deletion.calls[i] IN
             /\ deletion'.caught = "false"
             /\ (call.el = "card" /\ call.attached) =>
                   deletion'.cards[call.id].deleting = "false"
             /\ call.el = "form" => deletion'.form = "false" ]_vars

\* a confirmed delete of the first card has failed and the card is usable
\* again; later the user opened the modal for the second card and cancelled
C28_Witness ==
  /\ deletion.toast = ToastDeleteFailed
  /\ deletion.caught = "false"
  /\ deletion.calls = <<>>
  /\ deletion.cards[1].present
  /\ deletion.cards[1].deleting = "false"
  /\ deletion.cards[2].present
  /\ deletion.cards[2].deleting = "false"
  /\ deletion.click = "cancelDeleteTaskBtn"
  /\ ~deletion.display
  /\ deletion.taskCard = 0

(***************************************************************************)
(* Properties of the routes                                                *)
(***************************************************************************)
\* C29: every hash the client navigates to (#/sign-in, #/dashboard, #/home,
\* #/user-profile) is a route the router recognises: handleRoute loads the
\* view the hash names.
C29_ClientHashesAreRoutes ==
  \A k \in 1..Len(navs) :
    (navs[k].stage # "queued" /\ navs[k].hash \in ClientHashes)
      => /\ KnownPath(navs[k].hash)
         /\ navs[k].route = PathOf(navs[k].hash)[1]

\* C30: the router shows 'Error loading the view.' only when the fetch of
\* the view failed: for every known route a successful fetch ends with the
\* view's HTML displayed and its initializer run.
C30_ErrorOnlyOnFetchFailure ==
  \A k \in 1..Len(navs) :
    navs[k].loaded # "" =>
      /\ navs[k].stage = "done"
      /\ navs[k].inits = <<[view |-> navs[k].route, arg |-> <<>>]>>

====
